---- MODULE Spec2Model ----
(***************************************************************************)
(* Model of the scan orchestration core of qavo-scanner:                   *)
(* ScanOrchestrator.performCompleteScan (the five-module version), the     *)
(* five ScannerModule.scan methods, and the qa_scans / qa_tests /          *)
(* qa_issues records they write.                                           *)
(*                                                                         *)
(* Every `await` of the source is one step.  An external call (a           *)
(* persistence write, a browser operation, an audit engine) is answered by *)
(* the environment: it succeeds, or it raises; a persistence write may     *)
(* also resolve with an error result that the caller does not inspect, in  *)
(* which case the record is left as it was.  A write that raises is not    *)
(* applied.  The number of such environment failures in one run is capped  *)
(* by MaxFaults.                                                           *)
(***************************************************************************)
EXTENDS Integers, Sequences, FiniteSets, TLC

\* ------------------------------------------------------------------ bounds

\* Environment failures (raised calls, failed writes) allowed in one run.
MaxFaults == 2

\* Modules enabled together with a settings.tests key that names no module.
MaxWithExtra == 1

\* Violations reported by the accessibility engine for one page.
MaxViolations == 2

\* Affected nodes of one violation.
MaxNodes == 2

\* POST /api/scan requests handled by the front end in one run.
MaxRequests == 2

\* Distinct scan identifiers the requests may carry.
MaxScanIds == 2

\* Notification messages handled by the receiver in one run.
MaxDeliveries == 2

\* ------------------------------------------------------------ small helpers

Max(a, b) == IF a >= b THEN a ELSE b

RECURSIVE SumSeq(_)
SumSeq(s) == IF s = <<>> THEN 0 ELSE Head(s) + SumSeq(Tail(s))

RECURSIVE Repeat(_, _)
Repeat(x, n) == IF n <= 0 THEN <<>> ELSE <<x>> \o Repeat(x, n - 1)

RECURSIVE Flatten(_)
Flatten(ss) == IF ss = <<>> THEN <<>> ELSE Head(ss) \o Flatten(Tail(ss))

\* Mutant of CountIn: every element is counted.
CountInAll(s, S) == Len(s)

CountIn(s, S) == Cardinality({i \in 1..Len(s) : s[i] \in S})

\* ------------------------------------------------------------- the request

\* Mutant of Order: the accessibility scan placed before the performance scan.
OrderSwapped ==
    <<"accessibility", "performance", "seo", "security", "best_practices">>

\* The module calls of performCompleteScan, in the order of its five ifs.
Order == <<"performance", "accessibility", "seo", "security", "best_practices">>

Categories == {Order[i] : i \in 1..Len(Order)}

\* settings.tests is passed through by the front end unvalidated: it may carry
\* a key that names no module.
ExtraKey == "unknown_test"

Keys == Categories \cup {ExtraKey}

\* settings.tests || { performance: true, ..., best_practices: true }
DefaultTests == [k \in Keys |-> k \in Categories]

testsToRun(s) == IF s.given THEN s.flags ELSE DefaultTests

\* Object.values(testsToRun).filter(v => v).length
totalTests(s) == Cardinality({k \in Keys : testsToRun(s)[k]})

Settings ==
    {[given |-> FALSE, flags |-> [k \in Keys |-> FALSE]]}
    \cup {[given |-> TRUE, flags |-> f] :
             f \in {g \in [Keys -> BOOLEAN] :
                      g[ExtraKey] =>
                        Cardinality({c \in Categories : g[c]}) <= MaxWithExtra}}

\* ---------------------------------------------------------------- the page

\* What the audit engines and the DOM report for the target page.
\*   srt, lcp    the two Lighthouse audits: absent, score 1, or another score
\*   perfScore   categories.performance.score * 100, 0 for a null score
\*   violations  axe violations: impact and number of affected nodes
\*   titleLen    length of page.title(), 0 for none
\*   metaCount   number of meta[name=description] elements
\*   metaLen     length of the first one's content attribute, 0 for none
\*   h1Count     number of h1 elements
\*   https       url.startsWith('https')
\*   csp, xfo    response headers present
\*   consoleErrors  console messages of type error during the reload
PageClean ==
    [srt |-> "perfect", lcp |-> "perfect", perfScore |-> 100,
     violations |-> <<>>,
     titleLen |-> 60, metaCount |-> 1, metaLen |-> 160, h1Count |-> 1,
     https |-> TRUE, csp |-> TRUE, xfo |-> TRUE,
     consoleErrors |-> 0]

PageExample ==
    [srt |-> "imperfect", lcp |-> "perfect", perfScore |-> 50,
     violations |-> <<[impact |-> "serious", nodes |-> 1]>>,
     titleLen |-> 0, metaCount |-> 0, metaLen |-> 0, h1Count |-> 2,
     https |-> FALSE, csp |-> FALSE, xfo |-> FALSE,
     consoleErrors |-> 0]

PageBroken ==
    [srt |-> "imperfect", lcp |-> "absent", perfScore |-> 0,
     violations |-> <<[impact |-> "critical", nodes |-> 3],
                      [impact |-> "none", nodes |-> 1]>>,
     titleLen |-> 61, metaCount |-> 1, metaLen |-> 161, h1Count |-> 0,
     https |-> TRUE, csp |-> FALSE, xfo |-> TRUE,
     consoleErrors |-> 2]

Pages == {PageClean, PageExample, PageBroken}

\* violation.impact as axe reports it: one of its four levels, absent
\* ("none" for null or undefined), or a string the mapping does not know.
Impacts == {"critical", "serious", "moderate", "minor", "none", "unknown"}

Violations == [impact : Impacts, nodes : 0..MaxNodes]

ViolationLists ==
    UNION {[1..n -> Violations] : n \in 0..MaxViolations}

\* Lengths around the thresholds of the SEO checks (60 and 160).
TitleLens == {0, 1, 60, 61}

MetaLens == {0, 1, 160, 161}

\* The pages that differ from PageClean in what one module looks at.
PagesOf(cat) ==
    CASE cat = "performance" ->
           {[PageClean EXCEPT !.srt = a, !.lcp = b, !.perfScore = sc] :
              a \in {"perfect", "imperfect", "absent"},
              b \in {"perfect", "imperfect", "absent"},
              sc \in {0, 50, 100}}
      [] cat = "accessibility" ->
           {[PageClean EXCEPT !.violations = v] : v \in ViolationLists}
      [] cat = "seo" ->
           {[PageClean EXCEPT !.titleLen = t, !.metaCount = mc,
                              !.metaLen = IF mc = 0 THEN 0 ELSE ml,
                              !.h1Count = h] :
              t \in TitleLens, mc \in 0..2, ml \in MetaLens, h \in 0..2}
      [] cat = "security" ->
           {[PageClean EXCEPT !.https = a, !.csp = b, !.xfo = c] :
              a \in BOOLEAN, b \in BOOLEAN, c \in BOOLEAN}
      [] cat = "best_practices" ->
           {[PageClean EXCEPT !.consoleErrors = n] : n \in 0..2}

\* ------------------------------------------------------ the scanner modules

Call == [kind |-> "call", severity |-> "-"]

Issue(sev) == [kind |-> "issue", severity |-> sev]

\* Reading a property of an audit that is absent: a TypeError inside the try.
TypeError == [kind |-> "typeerror", severity |-> "-"]

\* Mutant of mapImpact: an impact the mapping does not know is taken as low.
mapImpactDefaultLow(impact) ==
    CASE impact = "critical" -> "critical"
      [] impact = "serious" -> "high"
      [] impact = "moderate" -> "medium"
      [] impact = "minor" -> "low"
      [] OTHER -> "low"

\* AccessibilityScanner.mapImpact: (impact && mapping[impact]) || 'medium'
mapImpact(impact) ==
    CASE impact = "critical" -> "critical"
      [] impact = "serious" -> "high"
      [] impact = "moderate" -> "medium"
      [] impact = "minor" -> "low"
      [] OTHER -> "medium"

\* One audit of PerformanceScanner.scan: audits[name]?.score !== 1 is true for
\* an absent audit too, and the payload then reads audits[name].title.
AuditSteps(a) ==
    CASE a = "perfect" -> <<>>
      [] a = "imperfect" -> <<Issue("high")>>
      [] OTHER -> <<TypeError>>

\* The awaited steps of each scan between the TestRun insert and the final
\* TestRun update, for page p: external calls, Issue inserts (each followed by
\* issues.push), in source order.
PerformanceSteps(p) == <<Call>> \o AuditSteps(p.srt) \o AuditSteps(p.lcp)

AccessibilitySteps(p) ==
    <<Call>> \o Flatten([i \in 1..Len(p.violations) |->
                 Repeat(Issue(mapImpact(p.violations[i].impact)),
                        p.violations[i].nodes)])

\* Mutant of SEOSteps: the two length thresholds taken as inclusive.
SEOStepsInclusive(p) ==
    <<Call>>
    \o (IF p.titleLen = 0 THEN <<Issue("high")>>
        ELSE IF p.titleLen >= 60 THEN <<Issue("medium")>> ELSE <<>>)
    \o <<Call>>
    \o (IF p.metaCount = 0 THEN <<Issue("high")>>
        ELSE <<Call>> \o (IF p.metaLen = 0 THEN <<Issue("high")>>
                          ELSE IF p.metaLen >= 160 THEN <<Issue("medium")>>
                          ELSE <<>>))
    \o <<Call>>
    \o (IF p.h1Count = 0 THEN <<Issue("high")>>
        ELSE IF p.h1Count > 1 THEN <<Issue("medium")>> ELSE <<>>)

SEOSteps(p) ==
    <<Call>>
    \o (IF p.titleLen = 0 THEN <<Issue("high")>>
        ELSE IF p.titleLen > 60 THEN <<Issue("medium")>> ELSE <<>>)
    \o <<Call>>
    \o (IF p.metaCount = 0 THEN <<Issue("high")>>
        ELSE <<Call>> \o (IF p.metaLen = 0 THEN <<Issue("high")>>
                          ELSE IF p.metaLen > 160 THEN <<Issue("medium")>>
                          ELSE <<>>))
    \o <<Call>>
    \o (IF p.h1Count = 0 THEN <<Issue("high")>>
        ELSE IF p.h1Count > 1 THEN <<Issue("medium")>> ELSE <<>>)

SecuritySteps(p) ==
    <<Call>>
    \o (IF ~p.https THEN <<Issue("high")>> ELSE <<>>)
    \o (IF ~p.csp THEN <<Issue("medium")>> ELSE <<>>)
    \o (IF ~p.xfo THEN <<Issue("medium")>> ELSE <<>>)

BestPracticesSteps(p) ==
    <<Call>> \o (IF p.consoleErrors > 0 THEN <<Issue("medium")>> ELSE <<>>)

Steps(cat, p) ==
    CASE cat = "performance" -> PerformanceSteps(p)
      [] cat = "accessibility" -> AccessibilitySteps(p)
      [] cat = "seo" -> SEOSteps(p)
      [] cat = "security" -> SecuritySteps(p)
      [] cat = "best_practices" -> BestPracticesSteps(p)

\* Mutant of ModuleScore: every module deducts 10 points per issue.
ModuleScoreFlatTen(cat, p, n) ==
    CASE cat = "performance" -> p.perfScore
      [] OTHER -> Max(0, 100 - n * 10)

\* The score of the final TestRun update: the engine's score for Performance,
\* Math.max(0, 100 - issues.length * 5) for Accessibility, * 10 for the rest.
ModuleScore(cat, p, n) ==
    CASE cat = "performance" -> p.perfScore
      [] cat = "accessibility" -> Max(0, 100 - n * 5)
      [] OTHER -> Max(0, 100 - n * 10)

\* ------------------------------------------------------- the orchestrator

\* Mutant of Weight: a medium Issue deducts as much as a high one.
WeightMediumAsHigh(sev) ==
    CASE sev = "critical" -> 20
      [] sev = "high" -> 10
      [] sev = "medium" -> 10
      [] sev = "low" -> 2
      [] OTHER -> 0

\* weights[issue.severity] || 0
Weight(sev) ==
    CASE sev = "critical" -> 20
      [] sev = "high" -> 10
      [] sev = "medium" -> 5
      [] sev = "low" -> 2
      [] OTHER -> 0

\* Mutant of calculateOverallScore: the floor at 0 left out.
calculateOverallScoreNoFloor(iss) ==
    100 - SumSeq([i \in 1..Len(iss) |-> Weight(iss[i])])

calculateOverallScore(iss) ==
    Max(0, 100 - SumSeq([i \in 1..Len(iss) |-> Weight(iss[i])]))

\* Progress is a JavaScript number and 10 + (k / n) * 80 is not always an
\* integer: progress values are kept in units of 1/Scale.
Scale == 3

P(x) == x * Scale

\* Mutant of ModuleProgress: the share of the modules still to run.
ModuleProgressDown(k, n) == P(10) + ((n - k) * P(80)) \div n

\* 10 + (completedTests / totalTests) * 80
ModuleProgress(k, n) == P(10) + (k * P(80)) \div n

NoValue == 0 - 1

\* The summary column of qa_scans: as inserted with the queued record, as
\* computed by performCompleteScan, or { error } as written by failScan.
InitialSummary ==
    [kind |-> "initial", totalIssues |-> 0, criticalIssues |-> 0,
     overallScore |-> 0, completedTests |-> 0, totalTests |-> 1, error |-> "-"]

\* Mutant of ComputedSummary: completedTests taken from the issue count.
ComputedSummaryMiscount(iss, n) ==
    [kind |-> "computed",
     totalIssues |-> Len(iss),
     criticalIssues |-> CountIn(iss, {"critical"}) + CountIn(iss, {"high"}),
     overallScore |-> calculateOverallScore(iss),
     completedTests |-> Len(iss), totalTests |-> n, error |-> "-"]

ComputedSummary(iss, n) ==
    [kind |-> "computed",
     totalIssues |-> Len(iss),
     criticalIssues |-> CountIn(iss, {"critical"}) + CountIn(iss, {"high"}),
     overallScore |-> calculateOverallScore(iss),
     completedTests |-> n, totalTests |-> n, error |-> "-"]

ErrorSummary(msg) ==
    [kind |-> "error", totalIssues |-> NoValue, criticalIssues |-> NoValue,
     overallScore |-> NoValue, completedTests |-> NoValue,
     totalTests |-> NoValue, error |-> msg]

\* ------------------------------------------------------------------- state

VARIABLES
    settings,       \* request.settings
    page,           \* what the target page shows to the engines
    pc,             \* position of performCompleteScan
    cur,            \* index in Order of the module if being executed
    completedTests, \* local counter of performCompleteScan
    allIssues,      \* local list of performCompleteScan (severities)
    err,            \* message of the error caught at the top level
    browser,        \* this.browser: "null" or "open"
    context,        \* the scan's browsing context: "none", "open", "closed"
    mpc,            \* position of the running module's scan
    testId,         \* its testId, 0 for null
    issues,         \* its local list (severities)
    pidx,           \* index of its next step in Steps
    scanStatus,     \* qa_scans.status
    scanProgress,   \* qa_scans.progress, in units of 1/Scale
    scanSummary,    \* qa_scans.summary
    qa_tests,       \* rows of qa_tests: the row's index is its id
    qa_issues,      \* rows of qa_issues
    nfaults,        \* environment failures so far
    faultKinds,     \* history: the kinds of failure that occurred
    started,        \* history: categories whose scan was called, in order
    ended,          \* history: number of those calls that returned or raised
    engineFailed,   \* history: categories whose engine or page call raised
    attempts,       \* history: times each setup step was attempted
    everCompleted,  \* history: completeScan's write was applied
    escaped,        \* history: categories whose scan() raised to its caller
    failOutcome,    \* history: how failScan's write ended, "-" before it
    startup,        \* the initialize() called at server start
    thisBrowser,    \* this.browser of the one orchestrator: 0 for null
    browsers,       \* the browsers launched: the index is the id
    sessions,       \* the contexts created: the index is the id
    invocations,    \* the performCompleteScan calls started by the handler
    nrequests,      \* POST /api/scan requests handled
    lastRequest,    \* body of the last one
    lastResponse,   \* answer to the last one
    scans,          \* per scan id: the Scan record, its TestRuns and Issues
    ndeliveries,    \* notification messages handled by the receiver
    lastDelivery,   \* the last one: the message, the answer, a failed write
    vp,             \* screenshot variant: index of the viewport in the loop
    screenshots,    \* screenshot variant: the local map of uploaded URLs
    scanScreenshots, \* screenshot variant: qa_scans.screenshots
    proc,           \* the service process: "up", "closing", "exited"
    cpc,            \* position of the scan-creation function
    creq,           \* its request: authorization and url
    cresp,          \* the status code it answered, 0 before
    created,        \* the Scan record has been inserted
    serviceUrl      \* SCAN_SERVICE_URL is set

inputVars == <<settings, page>>

orchVars == <<pc, cur, completedTests, allIssues, err, browser, context>>

modVars == <<mpc, testId, issues, pidx>>

scanVars == <<scanStatus, scanProgress, scanSummary>>

dbVars == <<scanStatus, scanProgress, scanSummary, qa_tests, qa_issues>>

histVars == <<started, ended, engineFailed, attempts, everCompleted, escaped,
              failOutcome>>

\* The front end and the invocations it runs concurrently.
srvVars == <<startup, thisBrowser, browsers, sessions, invocations, nrequests,
             lastRequest, lastResponse, scans>>

\* The notification receiver.
whVars == <<ndeliveries, lastDelivery>>

\* The screenshot loop of the orchestrator variant that has one.
shotVars == <<vp, screenshots, scanScreenshots>>

\* The service process and its signal handler.
sigVars == <<proc>>

\* The scan-creation function that inserts the Scan record and dispatches
\* it to the service.
createVars == <<cpc, creq, cresp, created, serviceUrl>>

vars == <<settings, page, pc, cur, completedTests, allIssues, err, browser,
          context, mpc, testId, issues, pidx, scanStatus, scanProgress,
          scanSummary, qa_tests, qa_issues, nfaults, faultKinds, started,
          ended, engineFailed, attempts, everCompleted, escaped, failOutcome,
          startup, thisBrowser, browsers, sessions, invocations, nrequests,
          lastRequest, lastResponse, scans, ndeliveries, lastDelivery, vp,
          screenshots, scanScreenshots, proc, cpc, creq, cresp, created,
          serviceUrl>>

SetupSteps == {"launch", "newContext", "newPage", "goto"}

\* ----------------------------------------- the front end: requests, records

ScanIds == 1..MaxScanIds

\* req.body of POST /api/scan, as far as the handler looks at it: url is
\* absent (or empty), a string new URL() rejects, or a valid URL; scanId is
\* absent (0) or an identifier; userId is present or not.
Bodies == [url : {"missing", "malformed", "valid"},
           scanId : {0} \cup ScanIds,
           userId : BOOLEAN]

NoBody == [url |-> "-", scanId |-> 0, userId |-> FALSE]

NoResponse == [code |-> 0, scanId |-> 0]

\* The module the requests of the concurrent specification enable:
\* settings = { tests: { best_practices: true } }
ServerCat == "best_practices"

\* What the url of such a request shows: a page with console errors.
ServerPages == {PageBroken}

\* The records of one scan id as the scan-creation function leaves them:
\* the Scan queued, no TestRun, no Issue.  writers is history: the
\* invocations that have written one of these records.
QueuedScan ==
    [status |-> "queued", progress |-> P(0), summary |-> InitialSummary,
     tests |-> <<>>, issues |-> <<>>, writers |-> {}]

\* The server right after start: initialize() has been called and its launch
\* is in flight, no request has been handled.
ServerIdle ==
    /\ startup = "launching"
    /\ thisBrowser = 0
    /\ browsers = <<>>
    /\ sessions = <<>>
    /\ invocations = <<>>
    /\ nrequests = 0
    /\ lastRequest = NoBody
    /\ lastResponse = NoResponse
    /\ scans = [s \in ScanIds |-> QueuedScan]
    /\ proc = "up"

\* ------------------------------------- the notification receiver: messages

\* A field that the message does not carry.
NoSummary ==
    [kind |-> "absent", totalIssues |-> NoValue, criticalIssues |-> NoValue,
     overallScore |-> NoValue, completedTests |-> NoValue,
     totalTests |-> NoValue, error |-> "-"]

NoCurrentTest == [testId |-> 0, status |-> "-"]

NoTest == [id |-> 0, status |-> "-", score |-> NoValue]

NoIssue == [testId |-> 0, severity |-> "-", category |-> "-"]

\* WebhookPayload, as far as the handler looks at it: scanId present or
\* not; each of status, progress, currentTest, test, issue, summary and
\* error absent, or present with a value.
Messages ==
    [scanId : BOOLEAN,
     status : {"-", "running", "failed"},
     progress : {NoValue, P(50)},
     summary : {NoSummary, ComputedSummary(<<"high">>, 1)},
     error : {"-", "timeout"},
     currentTest : {NoCurrentTest, [testId |-> 1, status |-> "running"]},
     test : {NoTest, [id |-> 1, status |-> "completed", score |-> 90]},
     issue : {NoIssue, [testId |-> 1, severity |-> "medium",
                        category |-> "seo"]}]

NoMessage ==
    [scanId |-> FALSE, status |-> "-", progress |-> NoValue,
     summary |-> NoSummary, error |-> "-", currentTest |-> NoCurrentTest,
     test |-> NoTest, issue |-> NoIssue]

\* Before any message: nothing handled.
ReceiverIdle ==
    /\ ndeliveries = 0
    /\ lastDelivery = [msg |-> NoMessage, code |-> 0, failed |-> FALSE]

\* const screenshots = { mobile: null, tablet: null, desktop: null }
Viewports == <<"mobile", "tablet", "desktop">>

NoScreenshots ==
    /\ vp = 0
    /\ screenshots = [v \in {"mobile", "tablet", "desktop"} |-> "null"]
    /\ scanScreenshots = "unset"

\* The queued record as created by the scan-creation function, the request
\* accepted by POST /api/scan, and the browser as the startup initialize()
\* left it (launched, or not when it failed).
\* No invocation has started: the locals of performCompleteScan and of the
\* modules, the environment and the histories.
Locals(at) ==
    /\ pc = at
    /\ cur = 0
    /\ completedTests = 0
    /\ allIssues = <<>>
    /\ err = "-"
    /\ browser \in {"null", "open"}
    /\ context = "none"
    /\ mpc = "idle"
    /\ testId = 0
    /\ issues = <<>>
    /\ pidx = 0
    /\ nfaults = 0
    /\ faultKinds = {}
    /\ started = <<>>
    /\ ended = 0
    /\ engineFailed = {}
    /\ attempts = [s \in SetupSteps |-> 0]
    /\ everCompleted = FALSE
    /\ escaped = {}
    /\ failOutcome = "-"
    /\ NoScreenshots

\* The invocation has been started by POST /api/scan and is at its first
\* statement.
NotStarted == Locals("queued")

\* The scan-creation function has inserted the record and the service has
\* accepted the scan.
Dispatched ==
    /\ cpc = "done"
    /\ creq = [auth |-> "valid", url |-> "valid"]
    /\ cresp = 200
    /\ created = TRUE
    /\ serviceUrl = TRUE

InitCommon ==
    /\ NotStarted
    /\ scanStatus = "queued"
    /\ scanProgress = P(0)
    /\ scanSummary = InitialSummary
    /\ qa_tests = <<>>
    /\ qa_issues = <<>>
    /\ ServerIdle
    /\ ReceiverIdle
    /\ Dispatched

Init ==
    /\ settings \in Settings
    /\ page \in Pages
    /\ InitCommon

\* settings.tests = { [cat]: true }
OnlyModule(cat) ==
    [given |-> TRUE, flags |-> [k \in Keys |-> k = cat]]

\* A request that enables one module, against any page of that module's
\* page space.
InitPages ==
    /\ \E cat \in Categories :
        /\ settings = OnlyModule(cat)
        /\ page \in PagesOf(cat)
    /\ InitCommon

\* ------------------------------------------------------- the environment

\* How a persistence write ends: applied; resolved with an error result that
\* the caller ignores (not applied); or rejected (not applied).
WriteOutcomes == IF nfaults < MaxFaults THEN {"ok", "error", "throw"} ELSE {"ok"}

\* How a browser or engine call ends.
CallOutcomes == IF nfaults < MaxFaults THEN {"ok", "throw"} ELSE {"ok"}

Env(o, kind) ==
    /\ nfaults' = IF o = "ok" THEN nfaults ELSE nfaults + 1
    /\ faultKinds' = IF o = "ok" THEN faultKinds ELSE faultKinds \cup {kind}

NoFault == UNCHANGED <<nfaults, faultKinds>>

\* The same count of failures for the concurrent invocations, whose kinds
\* are not recorded.
EnvS(o) ==
    /\ nfaults' = IF o = "ok" THEN nfaults ELSE nfaults + 1
    /\ UNCHANGED faultKinds

\* supabase.from('qa_scans').update({ status, progress }).eq('id', scanId)
updateScanStatus(o, status, progress) ==
    IF o = "ok"
    THEN /\ scanStatus' = status
         /\ scanProgress' = progress
         /\ UNCHANGED scanSummary
    ELSE UNCHANGED scanVars

\* update({ status: 'completed', progress: 100, summary, completed_at })
completeScan(o, summary) ==
    IF o = "ok"
    THEN /\ scanStatus' = "completed"
         /\ scanProgress' = P(100)
         /\ scanSummary' = summary
    ELSE UNCHANGED scanVars

\* Mutant of failScan: the update writes the error summary only.
failScanSummaryOnly(o, msg) ==
    IF o = "ok"
    THEN /\ scanSummary' = ErrorSummary(msg)
         /\ UNCHANGED <<scanStatus, scanProgress>>
    ELSE UNCHANGED scanVars

\* update({ status: 'failed', summary: { error }, completed_at })
failScan(o, msg) ==
    IF o = "ok"
    THEN /\ scanStatus' = "failed"
         /\ scanSummary' = ErrorSummary(msg)
         /\ UNCHANGED scanProgress
    ELSE UNCHANGED scanVars

\* Mutant of Raise: the raised call is ignored and the scan goes on.
RaiseIgnored(o, msg, next) ==
    /\ pc' = next
    /\ err' = err

\* A raised call inside the try of performCompleteScan goes to its catch.
Raise(o, msg, next) ==
    /\ pc' = IF o = "throw" THEN "catch" ELSE next
    /\ err' = IF o = "throw" THEN msg ELSE err

\* ------------------------------------------- performCompleteScan, setup

\* await this.updateScanStatus(scanId, 'running', 0)
ScanStart ==
    /\ pc = "queued"
    /\ \E o \in WriteOutcomes :
        /\ updateScanStatus(o, "running", P(0))
        /\ Env(o, "persist")
        /\ Raise(o, "status write", "browser")
    /\ UNCHANGED <<srvVars, whVars, sigVars, createVars, shotVars,
                   inputVars, cur, completedTests, allIssues, browser, context,
                   modVars, qa_tests, qa_issues, histVars>>

\* if (!this.browser) await this.initialize()
AcquireBrowser ==
    /\ pc = "browser"
    /\ IF browser = "open"
       THEN /\ pc' = "context"
            /\ NoFault
            /\ UNCHANGED <<err, browser, attempts>>
       ELSE \E o \in CallOutcomes :
            /\ browser' = IF o = "ok" THEN "open" ELSE "null"
            /\ attempts' = [attempts EXCEPT !["launch"] = @ + 1]
            /\ Env(o, "setup")
            /\ Raise(o, "launch", "context")
    /\ UNCHANGED <<srvVars, whVars, sigVars, createVars, shotVars,
                   inputVars, cur, completedTests, allIssues, context, modVars,
                   dbVars, started, ended, engineFailed, everCompleted,
                   escaped, failOutcome>>

\* const context = await this.browser!.newContext(...)
NewContext ==
    /\ pc = "context"
    /\ \E o \in CallOutcomes :
        /\ context' = IF o = "ok" THEN "open" ELSE context
        /\ Env(o, "setup")
        /\ Raise(o, "newContext", "page")
    /\ attempts' = [attempts EXCEPT !["newContext"] = @ + 1]
    /\ UNCHANGED <<srvVars, whVars, sigVars, createVars, shotVars,
                   inputVars, cur, completedTests, allIssues, browser, modVars,
                   dbVars, started, ended, engineFailed, everCompleted,
                   escaped, failOutcome>>

\* const page = await context.newPage()
NewPage ==
    /\ pc = "page"
    /\ \E o \in CallOutcomes :
        /\ Env(o, "setup")
        /\ Raise(o, "newPage", "goto")
    /\ attempts' = [attempts EXCEPT !["newPage"] = @ + 1]
    /\ UNCHANGED <<srvVars, whVars, sigVars, createVars, shotVars,
                   inputVars, cur, completedTests, allIssues, browser, context,
                   modVars, dbVars, started, ended, engineFailed,
                   everCompleted, escaped, failOutcome>>

\* await page.goto(url, { waitUntil: 'networkidle', timeout: 60000 })
Navigate ==
    /\ pc = "goto"
    /\ \E o \in CallOutcomes :
        /\ Env(o, "setup")
        /\ Raise(o, "goto", "setup")
    /\ attempts' = [attempts EXCEPT !["goto"] = @ + 1]
    /\ UNCHANGED <<srvVars, whVars, sigVars, createVars, shotVars,
                   inputVars, cur, completedTests, allIssues, browser, context,
                   modVars, dbVars, started, ended, engineFailed,
                   everCompleted, escaped, failOutcome>>

\* await this.updateScanStatus(scanId, 'running', 5); then testsToRun,
\* totalTests, completedTests = 0, allIssues = []
SetupDone ==
    /\ pc = "setup"
    /\ \E o \in WriteOutcomes :
        /\ updateScanStatus(o, "running", P(5))
        /\ Env(o, "persist")
        /\ Raise(o, "progress write", "modules")
        /\ cur' = IF o = "throw" THEN cur ELSE 1
    /\ completedTests' = 0
    /\ allIssues' = <<>>
    /\ UNCHANGED <<srvVars, whVars, sigVars, createVars, shotVars,
                   inputVars, browser, context, modVars, qa_tests, qa_issues,
                   histVars>>

\* --------------------------------------------- performCompleteScan, modules

\* if (testsToRun.<category>) is false
SkipModule ==
    /\ pc = "modules"
    /\ cur \in 1..Len(Order)
    /\ ~testsToRun(settings)[Order[cur]]
    /\ cur' = cur + 1
    /\ NoFault
    /\ UNCHANGED <<srvVars, whVars, sigVars, createVars, shotVars,
                   inputVars, pc, completedTests, allIssues, err, browser,
                   context, modVars, dbVars, histVars>>

\* if (testsToRun.<category>) await this.<category>Scanner.scan(page, url, scanId)
CallModule ==
    /\ pc = "modules"
    /\ cur \in 1..Len(Order)
    /\ testsToRun(settings)[Order[cur]]
    /\ pc' = "module"
    /\ mpc' = "insert"
    /\ testId' = 0
    /\ issues' = <<>>
    /\ pidx' = 1
    /\ started' = Append(started, Order[cur])
    /\ NoFault
    /\ UNCHANGED <<srvVars, whVars, sigVars, createVars, shotVars,
                   inputVars, cur, completedTests, allIssues, err, browser,
                   context, dbVars, ended, engineFailed, attempts,
                   everCompleted, escaped, failOutcome>>

\* Mutant of ModuleReturn: the issues of a module whose TestRun is failed
\* are dropped.
ModuleReturnDropFailed ==
    /\ pc = "module"
    /\ mpc = "return"
    /\ allIssues' = IF testId /= 0 /\ qa_tests[testId].status = "failed"
                    THEN allIssues
                    ELSE allIssues \o issues
    /\ completedTests' = completedTests + 1
    /\ mpc' = "idle"
    /\ pc' = "progress"
    /\ ended' = ended + 1
    /\ NoFault
    /\ UNCHANGED <<srvVars, whVars, sigVars, createVars, shotVars,
                   inputVars, cur, err, browser, context, testId, issues, pidx,
                   dbVars, started, engineFailed, attempts, everCompleted,
                   escaped, failOutcome>>

\* allIssues.push(...issues); completedTests++
ModuleReturn ==
    /\ pc = "module"
    /\ mpc = "return"
    /\ allIssues' = allIssues \o issues
    /\ completedTests' = completedTests + 1
    /\ mpc' = "idle"
    /\ pc' = "progress"
    /\ ended' = ended + 1
    /\ NoFault
    /\ UNCHANGED <<srvVars, whVars, sigVars, createVars, shotVars,
                   inputVars, cur, err, browser, context, testId, issues, pidx,
                   dbVars, started, engineFailed, attempts, everCompleted,
                   escaped, failOutcome>>

\* await this.updateScanStatus(scanId, 'running',
\*                             10 + (completedTests / totalTests) * 80)
UpdateProgress ==
    /\ pc = "progress"
    /\ \E o \in WriteOutcomes :
        /\ updateScanStatus(o, "running",
                            ModuleProgress(completedTests, totalTests(settings)))
        /\ Env(o, "persist")
        /\ Raise(o, "progress write", "modules")
        /\ cur' = IF o = "throw" THEN cur ELSE cur + 1
    /\ UNCHANGED <<srvVars, whVars, sigVars, createVars, shotVars,
                   inputVars, completedTests, allIssues, browser, context,
                   modVars, qa_tests, qa_issues, histVars>>

\* summary = {...}; await this.completeScan(scanId, summary)
Complete ==
    /\ pc = "modules"
    /\ cur = Len(Order) + 1
    /\ \E o \in WriteOutcomes :
        /\ completeScan(o, ComputedSummary(allIssues, totalTests(settings)))
        /\ everCompleted' = (everCompleted \/ o = "ok")
        /\ Env(o, "persist")
        /\ Raise(o, "summary write", "close")
    /\ UNCHANGED <<srvVars, whVars, sigVars, createVars, shotVars,
                   inputVars, cur, completedTests, allIssues, browser, context,
                   modVars, qa_tests, qa_issues, started, ended, engineFailed,
                   attempts, escaped, failOutcome>>

\* await context.close()
CloseContext ==
    /\ pc = "close"
    /\ \E o \in CallOutcomes :
        /\ context' = IF o = "ok" THEN "closed" ELSE context
        /\ Env(o, "close")
        /\ Raise(o, "close", "done")
    /\ UNCHANGED <<srvVars, whVars, sigVars, createVars, shotVars,
                   inputVars, cur, completedTests, allIssues, browser, modVars,
                   dbVars, histVars>>

\* catch (error) { await this.failScan(scanId, error.message) }
\* A failScan that raises rejects the promise of performCompleteScan.
Fail ==
    /\ pc = "catch"
    /\ \E o \in WriteOutcomes :
        /\ failScan(o, err)
        /\ failOutcome' = o
        /\ Env(o, "persist")
        /\ pc' = IF o = "throw" THEN "rejected" ELSE "done"
    /\ UNCHANGED <<srvVars, whVars, sigVars, createVars, shotVars,
                   inputVars, cur, completedTests, allIssues, err, browser,
                   context, modVars, qa_tests, qa_issues, started, ended,
                   engineFailed, attempts, everCompleted, escaped>>

\* ------------------------------------------------- ScannerModule.scan

Cat == Order[cur]

CurSteps == Steps(Cat, page)

\* Mutant of TestRun: the record inserted as completed.
TestRunCompleted(cat) ==
    [category |-> cat, status |-> "completed", score |-> NoValue]

TestRun(cat) == [category |-> cat, status |-> "running", score |-> NoValue]

\* Mutant of IssueRow: the Issue is filed under the category of the first
\* module whatever module found it.
IssueRowFirstCategory(tid, cat, sev) ==
    [test_id |-> tid, category |-> Order[1], severity |-> sev,
     status |-> "open"]

IssueRow(tid, cat, sev) ==
    [test_id |-> tid, category |-> cat, severity |-> sev, status |-> "open"]

\* const { data: test } = await supabase.from('qa_tests').insert({...,
\* status: 'running'}).select('id').single();
\* if (!test) throw new Error(...); testId = test.id
InsertTest ==
    /\ pc = "module"
    /\ mpc = "insert"
    /\ \E o \in WriteOutcomes :
        /\ qa_tests' = IF o = "ok" THEN Append(qa_tests, TestRun(Cat))
                       ELSE qa_tests
        /\ testId' = IF o = "ok" THEN Len(qa_tests) + 1 ELSE testId
        /\ mpc' = IF o = "ok" THEN "run" ELSE "catch"
        /\ Env(o, "persist")
    /\ UNCHANGED <<srvVars, whVars, sigVars, createVars, shotVars,
                   inputVars, orchVars, issues, pidx, scanVars, qa_issues,
                   histVars>>

\* An awaited engine or page call of the module: lighthouse(...), analyze(),
\* page.title(), locator.count(), getAttribute(), page.goto(...)
ModuleCall ==
    /\ pc = "module"
    /\ mpc = "run"
    /\ pidx <= Len(CurSteps)
    /\ CurSteps[pidx].kind = "call"
    /\ \E o \in CallOutcomes :
        /\ mpc' = IF o = "ok" THEN "run" ELSE "catch"
        /\ pidx' = IF o = "ok" THEN pidx + 1 ELSE pidx
        /\ engineFailed' = IF o = "ok" THEN engineFailed
                           ELSE engineFailed \cup {Cat}
        /\ Env(o, "engine")
    /\ UNCHANGED <<srvVars, whVars, sigVars, createVars, shotVars,
                   inputVars, orchVars, testId, issues, dbVars, started, ended,
                   attempts, everCompleted, escaped, failOutcome>>

\* Mutant of ModuleIssue: the issue is inserted but not pushed on the
\* module's list.
ModuleIssueNotListed ==
    /\ pc = "module"
    /\ mpc = "run"
    /\ pidx <= Len(CurSteps)
    /\ CurSteps[pidx].kind = "issue"
    /\ \E o \in WriteOutcomes :
        /\ qa_issues' = IF o = "ok"
                        THEN Append(qa_issues,
                                    IssueRow(testId, Cat, CurSteps[pidx].severity))
                        ELSE qa_issues
        /\ issues' = issues
        /\ mpc' = IF o = "throw" THEN "catch" ELSE "run"
        /\ pidx' = IF o = "throw" THEN pidx ELSE pidx + 1
        /\ Env(o, "persist")
    /\ UNCHANGED <<srvVars, whVars, sigVars, createVars, shotVars,
                   inputVars, orchVars, testId, scanVars, qa_tests, histVars>>

\* await supabase.from('qa_issues').insert(issuePayload);
\* issues.push({ severity })
ModuleIssue ==
    /\ pc = "module"
    /\ mpc = "run"
    /\ pidx <= Len(CurSteps)
    /\ CurSteps[pidx].kind = "issue"
    /\ \E o \in WriteOutcomes :
        /\ qa_issues' = IF o = "ok"
                        THEN Append(qa_issues,
                                    IssueRow(testId, Cat, CurSteps[pidx].severity))
                        ELSE qa_issues
        /\ issues' = IF o = "throw" THEN issues
                     ELSE Append(issues, CurSteps[pidx].severity)
        /\ mpc' = IF o = "throw" THEN "catch" ELSE "run"
        /\ pidx' = IF o = "throw" THEN pidx ELSE pidx + 1
        /\ Env(o, "persist")
    /\ UNCHANGED <<srvVars, whVars, sigVars, createVars, shotVars,
                   inputVars, orchVars, testId, scanVars, qa_tests, histVars>>

\* audits['...'].title of an absent audit
ModuleTypeError ==
    /\ pc = "module"
    /\ mpc = "run"
    /\ pidx <= Len(CurSteps)
    /\ CurSteps[pidx].kind = "typeerror"
    /\ mpc' = "catch"
    /\ engineFailed' = engineFailed \cup {Cat}
    /\ NoFault
    /\ UNCHANGED <<srvVars, whVars, sigVars, createVars, shotVars,
                   inputVars, orchVars, testId, issues, pidx, dbVars, started,
                   ended, attempts, everCompleted, escaped, failOutcome>>

\* await supabase.from('qa_tests').update({ status: 'completed', score,
\* progress: 100, last_run }).eq('id', testId)
Finalize ==
    /\ pc = "module"
    /\ mpc = "run"
    /\ pidx > Len(CurSteps)
    /\ \E o \in WriteOutcomes :
        /\ qa_tests' = IF o = "ok"
                       THEN [qa_tests EXCEPT ![testId] =
                                [@ EXCEPT !.status = "completed",
                                          !.score = ModuleScore(Cat, page, Len(issues))]]
                       ELSE qa_tests
        /\ mpc' = IF o = "throw" THEN "catch" ELSE "return"
        /\ Env(o, "persist")
    /\ UNCHANGED <<srvVars, whVars, sigVars, createVars, shotVars,
                   inputVars, orchVars, testId, issues, pidx, scanVars,
                   qa_issues, histVars>>

\* Mutant of ModuleCatch: the handler only logs the error.
ModuleCatchLogOnly ==
    /\ pc = "module"
    /\ mpc = "catch"
    /\ mpc' = "return"
    /\ NoFault
    /\ UNCHANGED <<srvVars, whVars, sigVars, createVars, shotVars,
                   inputVars, orchVars, testId, issues, pidx, dbVars, histVars>>

\* catch (error) { if (testId) await supabase.from('qa_tests')
\*                   .update({ status: 'failed' }).eq('id', testId) }
\* The update is awaited inside the handler: when it raises, the error
\* leaves scan() and reaches the catch of performCompleteScan.
ModuleCatch ==
    /\ pc = "module"
    /\ mpc = "catch"
    /\ IF testId = 0
       THEN /\ mpc' = "return"
            /\ NoFault
            /\ UNCHANGED <<pc, err, qa_tests, ended, escaped>>
       ELSE \E o \in WriteOutcomes :
            /\ qa_tests' = IF o = "ok"
                           THEN [qa_tests EXCEPT ![testId].status = "failed"]
                           ELSE qa_tests
            /\ mpc' = IF o = "throw" THEN "idle" ELSE "return"
            /\ ended' = IF o = "throw" THEN ended + 1 ELSE ended
            /\ escaped' = IF o = "throw" THEN escaped \cup {Cat} ELSE escaped
            /\ Env(o, "persist")
            /\ Raise(o, "test update", pc)
    /\ UNCHANGED <<srvVars, whVars, sigVars, createVars, shotVars,
                   inputVars, cur, completedTests, allIssues, browser, context,
                   testId, issues, pidx, scanVars, qa_issues, started,
                   engineFailed, attempts, everCompleted, failOutcome>>

\* -------------------------------------------------------- specification

Next ==
    \/ ScanStart
    \/ AcquireBrowser
    \/ NewContext
    \/ NewPage
    \/ Navigate
    \/ SetupDone
    \/ SkipModule
    \/ CallModule
    \/ InsertTest
    \/ ModuleCall
    \/ ModuleIssue
    \/ ModuleTypeError
    \/ Finalize
    \/ ModuleCatch
    \/ ModuleReturn
    \/ UpdateProgress
    \/ Complete
    \/ CloseContext
    \/ Fail

Spec == Init /\ [][Next]_vars

\* Every external call eventually returns or raises, and the event loop
\* then runs the continuation that awaits it: a step that is possible is
\* eventually taken.
FairSpec == Spec /\ WF_vars(Next)

\* The same program run on the module page spaces.
SpecPages == InitPages /\ [][Next]_vars

\* ------------------------------------------- the front end and concurrency
\* POST /api/scan and the performCompleteScan invocations it starts on the
\* one ScanOrchestrator, interleaved at their awaits.  Each request of this
\* specification enables one module, ServerCat.

coreVars == <<inputVars, orchVars, modVars, dbVars, histVars, whVars, shotVars,
              sigVars, createVars>>

InvIds == 1..MaxRequests

\* if (!url || !scanId || !userId)
MissingFields(b) == b.url = "missing" \/ b.scanId = 0 \/ ~b.userId

\* Mutant of MalformedUrl: the url is not parsed.
MalformedUrlAccepted(b) == FALSE

\* try { new URL(url) } catch { return res.status(400)... }
MalformedUrl(b) == b.url = "malformed"

ServerSettings == OnlyModule(ServerCat)

\* performCompleteScan(request), run up to its first await: the write of
\* updateScanStatus(scanId, 'running', 0) is in flight.
\*   onBrowser  the browser on which newContext was called
\*   context    its context, 0 before it is created
\*   page       what its url shows, known from the navigation on
\*   testId, issues, pidx   the locals of its module
NewInvocation(id) ==
    [scanId |-> id, pc |-> "status", onBrowser |-> 0, context |-> 0,
     page |-> PageClean, testId |-> 0, issues |-> <<>>, pidx |-> 0,
     err |-> "-"]

\* Scan ids are opaque to the server: the first id its invocations are
\* started with is called 1, the next new one 2, and so on.
NextScanId ==
    Cardinality({invocations[k].scanId : k \in 1..Len(invocations)}) + 1

\* app.post('/api/scan', ...): the handler has no await, it runs as one
\* step.  performCompleteScan is called without await and its rejection is
\* only logged.
PostScan ==
    /\ proc /= "exited"
    /\ nrequests < MaxRequests
    /\ \E b \in Bodies :
        /\ b.scanId <= NextScanId
        /\ lastRequest' = b
        /\ IF MissingFields(b) \/ MalformedUrl(b)
           THEN /\ lastResponse' = [code |-> 400, scanId |-> 0]
                /\ UNCHANGED invocations
           ELSE /\ invocations' = Append(invocations, NewInvocation(b.scanId))
                /\ lastResponse' = [code |-> 202, scanId |-> b.scanId]
    /\ nrequests' = nrequests + 1
    /\ NoFault
    /\ UNCHANGED <<coreVars, startup, thisBrowser, browsers, sessions, scans>>

\* scanOrchestrator.initialize().catch(...) of server start: the launch
\* returns and this.browser is assigned, or it raises and is logged.
StartupLaunched ==
    /\ proc /= "exited"
    /\ startup = "launching"
    /\ \E o \in CallOutcomes :
        /\ startup' = IF o = "ok" THEN "done" ELSE "failed"
        /\ browsers' = IF o = "ok" THEN Append(browsers, "open") ELSE browsers
        /\ thisBrowser' = IF o = "ok" THEN Len(browsers) + 1 ELSE thisBrowser
        /\ EnvS(o)
    /\ UNCHANGED <<coreVars, sessions, invocations, nrequests, lastRequest,
                   lastResponse, scans>>

\* The browser on which invocation i works has been closed: every call on
\* it, its contexts or its pages raises.
BrowserGone(i) ==
    /\ invocations[i].onBrowser /= 0
    /\ browsers[invocations[i].onBrowser] = "closed"

CallsOn(i) == IF BrowserGone(i) THEN {"throw"} ELSE CallOutcomes

EnvOn(i, o) == IF BrowserGone(i) THEN NoFault ELSE EnvS(o)

\* Invocation i is awaiting the call named by where.
At(i, where) ==
    /\ proc /= "exited"
    /\ i <= Len(invocations)
    /\ invocations[i].pc = where

\* The invocation after an awaited call of its try block: at next, or in
\* the catch with the message when the call raised.
Cont(inv, o, msg, next) ==
    IF o = "throw" THEN [inv EXCEPT !.pc = "catch", !.err = msg]
    ELSE [inv EXCEPT !.pc = next]

\* Mutant of SetStatus: the update has no .eq('id', scanId) filter.
SetStatusAll(recs, s, by, status, progress) ==
    [x \in DOMAIN recs |->
        [recs[x] EXCEPT !.status = status, !.progress = progress,
                        !.writers = @ \cup {by}]]

\* update({ status, progress }).eq('id', scanId)
SetStatus(recs, s, by, status, progress) ==
    [recs EXCEPT ![s] = [@ EXCEPT !.status = status, !.progress = progress,
                                  !.writers = @ \cup {by}]]

\* update({ status: 'completed', progress: 100, summary, completed_at })
\*   .eq('id', scanId)
SetCompleted(recs, s, by, summary) ==
    [recs EXCEPT ![s] = [@ EXCEPT !.status = "completed",
                                  !.progress = P(100),
                                  !.summary = summary,
                                  !.writers = @ \cup {by}]]

\* update({ status: 'failed', summary: { error }, completed_at })
\*   .eq('id', scanId)
SetFailed(recs, s, by, msg) ==
    [recs EXCEPT ![s] = [@ EXCEPT !.status = "failed",
                                  !.summary = ErrorSummary(msg),
                                  !.writers = @ \cup {by}]]

\* Mutant of CloseSession: every context of the same browser is closed, as
\* browser.close() would.
CloseSessionsOfBrowser(sess, c) ==
    [x \in DOMAIN sess |->
        IF sess[x].browser = sess[c].browser
        THEN [sess[x] EXCEPT !.state = "closed"] ELSE sess[x]]

\* await context.close()
CloseSession(sess, c) == [sess EXCEPT ![c].state = "closed"]

\* await this.updateScanStatus(scanId, 'running', 0);
\* if (!this.browser) await this.initialize();
\* const context = await this.browser!.newContext(...)
\* The test of this.browser and the call that follows it run in the same
\* turn: the launch is started, or newContext is called on this.browser.
InvStart(i) ==
    /\ At(i, "status")
    /\ \E o \in WriteOutcomes :
        /\ scans' = IF o = "ok"
                    THEN SetStatus(scans, invocations[i].scanId, i,
                                   "running", P(0))
                    ELSE scans
        /\ invocations' =
             [invocations EXCEPT ![i] =
                IF o = "throw" THEN Cont(@, o, "status write", "-")
                ELSE IF thisBrowser = 0 THEN [@ EXCEPT !.pc = "launch"]
                ELSE [@ EXCEPT !.pc = "context", !.onBrowser = thisBrowser]]
        /\ EnvS(o)
    /\ UNCHANGED <<coreVars, startup, thisBrowser, browsers, sessions,
                   nrequests, lastRequest, lastResponse>>

\* initialize() called by the scan: this.browser = await chromium.launch(...)
\* has no test of this.browser; then newContext is called on the new browser.
InvLaunched(i) ==
    /\ At(i, "launch")
    /\ \E o \in CallOutcomes :
        /\ browsers' = IF o = "ok" THEN Append(browsers, "open") ELSE browsers
        /\ thisBrowser' = IF o = "ok" THEN Len(browsers) + 1 ELSE thisBrowser
        /\ invocations' =
             [invocations EXCEPT ![i] =
                IF o = "throw" THEN Cont(@, o, "launch", "-")
                ELSE [@ EXCEPT !.pc = "context",
                               !.onBrowser = Len(browsers) + 1]]
        /\ EnvS(o)
    /\ UNCHANGED <<coreVars, startup, sessions, nrequests, lastRequest,
                   lastResponse, scans>>

\* const context = await this.browser!.newContext(...);
\* then context.newPage() is called
InvNewContext(i) ==
    /\ At(i, "context")
    /\ \E o \in CallsOn(i) :
        /\ sessions' = IF o = "ok"
                       THEN Append(sessions,
                                   [browser |-> invocations[i].onBrowser,
                                    owner |-> i, state |-> "open",
                                    pages |-> 0])
                       ELSE sessions
        /\ invocations' =
             [invocations EXCEPT ![i] =
                IF o = "throw" THEN Cont(@, o, "newContext", "-")
                ELSE [@ EXCEPT !.pc = "page", !.context = Len(sessions) + 1]]
        /\ EnvOn(i, o)
    /\ UNCHANGED <<coreVars, startup, thisBrowser, browsers, nrequests,
                   lastRequest, lastResponse, scans>>

\* const page = await context.newPage(); then page.goto(url, ...) is called
InvNewPage(i) ==
    /\ At(i, "page")
    /\ \E o \in CallsOn(i) :
        /\ sessions' = IF o = "ok"
                       THEN [sessions EXCEPT
                               ![invocations[i].context].pages = @ + 1]
                       ELSE sessions
        /\ invocations' =
             [invocations EXCEPT ![i] = Cont(@, o, "newPage", "goto")]
        /\ EnvOn(i, o)
    /\ UNCHANGED <<coreVars, startup, thisBrowser, browsers, nrequests,
                   lastRequest, lastResponse, scans>>

\* await page.goto(url, { waitUntil: 'networkidle', timeout: 60000 });
\* then updateScanStatus(scanId, 'running', 5) is called
InvNavigate(i) ==
    /\ At(i, "goto")
    /\ \E o \in CallsOn(i) :
        /\ \E p \in IF o = "ok" THEN ServerPages ELSE {invocations[i].page} :
             invocations' =
               [invocations EXCEPT ![i] =
                  Cont([@ EXCEPT !.page = p], o, "goto", "setup")]
        /\ EnvOn(i, o)
    /\ UNCHANGED <<coreVars, startup, thisBrowser, browsers, sessions,
                   nrequests, lastRequest, lastResponse, scans>>

\* await this.updateScanStatus(scanId, 'running', 5); then the module is
\* called and runs up to its first await, the insert of its TestRun
InvSetupDone(i) ==
    /\ At(i, "setup")
    /\ \E o \in WriteOutcomes :
        /\ scans' = IF o = "ok"
                    THEN SetStatus(scans, invocations[i].scanId, i,
                                   "running", P(5))
                    ELSE scans
        /\ invocations' =
             [invocations EXCEPT ![i] = Cont(@, o, "progress write", "insert")]
        /\ EnvS(o)
    /\ UNCHANGED <<coreVars, startup, thisBrowser, browsers, sessions,
                   nrequests, lastRequest, lastResponse>>

\* As InsertTest, for invocation i.
InvInsertTest(i) ==
    /\ At(i, "insert")
    /\ \E o \in WriteOutcomes :
        /\ scans' =
             IF o = "ok"
             THEN [scans EXCEPT ![invocations[i].scanId] =
                     [@ EXCEPT !.tests = Append(@, TestRun(ServerCat)),
                               !.writers = @ \cup {i}]]
             ELSE scans
        /\ invocations' =
             [invocations EXCEPT ![i] =
                IF o = "ok"
                THEN [@ EXCEPT !.pc = "run", !.pidx = 1,
                               !.testId =
                                  Len(scans[invocations[i].scanId].tests) + 1]
                ELSE [@ EXCEPT !.pc = "mcatch"]]
        /\ EnvS(o)
    /\ UNCHANGED <<coreVars, startup, thisBrowser, browsers, sessions,
                   nrequests, lastRequest, lastResponse>>

InvSteps(i) == Steps(ServerCat, invocations[i].page)

\* As ModuleCall, for invocation i.
InvModuleCall(i) ==
    /\ At(i, "run")
    /\ invocations[i].pidx <= Len(InvSteps(i))
    /\ InvSteps(i)[invocations[i].pidx].kind = "call"
    /\ \E o \in CallsOn(i) :
        /\ invocations' =
             [invocations EXCEPT ![i] =
                IF o = "ok" THEN [@ EXCEPT !.pidx = @ + 1]
                ELSE [@ EXCEPT !.pc = "mcatch"]]
        /\ EnvOn(i, o)
    /\ UNCHANGED <<coreVars, startup, thisBrowser, browsers, sessions,
                   nrequests, lastRequest, lastResponse, scans>>

\* As ModuleIssue, for invocation i.
InvModuleIssue(i) ==
    /\ At(i, "run")
    /\ invocations[i].pidx <= Len(InvSteps(i))
    /\ InvSteps(i)[invocations[i].pidx].kind = "issue"
    /\ \E o \in WriteOutcomes :
        LET sev == InvSteps(i)[invocations[i].pidx].severity IN
        /\ scans' =
             IF o = "ok"
             THEN [scans EXCEPT ![invocations[i].scanId] =
                     [@ EXCEPT !.issues =
                                  Append(@, IssueRow(invocations[i].testId,
                                                     ServerCat, sev)),
                               !.writers = @ \cup {i}]]
             ELSE scans
        /\ invocations' =
             [invocations EXCEPT ![i] =
                IF o = "throw" THEN [@ EXCEPT !.pc = "mcatch"]
                ELSE [@ EXCEPT !.pidx = @ + 1, !.issues = Append(@, sev)]]
        /\ EnvS(o)
    /\ UNCHANGED <<coreVars, startup, thisBrowser, browsers, sessions,
                   nrequests, lastRequest, lastResponse>>

\* As Finalize and ModuleReturn, for invocation i: the module returns its
\* list, allIssues.push(...issues), completedTests++, and the progress
\* write is called.
InvFinalize(i) ==
    /\ At(i, "run")
    /\ invocations[i].pidx > Len(InvSteps(i))
    /\ \E o \in WriteOutcomes :
        /\ scans' =
             IF o = "ok"
             THEN [scans EXCEPT ![invocations[i].scanId] =
                     [@ EXCEPT !.tests[invocations[i].testId] =
                                  [@ EXCEPT !.status = "completed",
                                            !.score =
                                               ModuleScore(ServerCat,
                                                  invocations[i].page,
                                                  Len(invocations[i].issues))],
                               !.writers = @ \cup {i}]]
             ELSE scans
        /\ invocations' =
             [invocations EXCEPT ![i] =
                [@ EXCEPT !.pc = IF o = "throw" THEN "mcatch" ELSE "progress"]]
        /\ EnvS(o)
    /\ UNCHANGED <<coreVars, startup, thisBrowser, browsers, sessions,
                   nrequests, lastRequest, lastResponse>>

\* As ModuleCatch and ModuleReturn, for invocation i.
InvModuleCatch(i) ==
    /\ At(i, "mcatch")
    /\ IF invocations[i].testId = 0
       THEN /\ invocations' = [invocations EXCEPT ![i].pc = "progress"]
            /\ NoFault
            /\ UNCHANGED scans
       ELSE \E o \in WriteOutcomes :
            /\ scans' =
                 IF o = "ok"
                 THEN [scans EXCEPT ![invocations[i].scanId] =
                         [@ EXCEPT !.tests[invocations[i].testId].status =
                                      "failed",
                                   !.writers = @ \cup {i}]]
                 ELSE scans
            /\ invocations' =
                 [invocations EXCEPT ![i] =
                    Cont(@, o, "test update", "progress")]
            /\ EnvS(o)
    /\ UNCHANGED <<coreVars, startup, thisBrowser, browsers, sessions,
                   nrequests, lastRequest, lastResponse>>

\* await this.updateScanStatus(scanId, 'running',
\*                             10 + (completedTests / totalTests) * 80);
\* then the summary is computed and completeScan is called
InvProgress(i) ==
    /\ At(i, "progress")
    /\ \E o \in WriteOutcomes :
        /\ scans' = IF o = "ok"
                    THEN SetStatus(scans, invocations[i].scanId, i, "running",
                                   ModuleProgress(1, totalTests(ServerSettings)))
                    ELSE scans
        /\ invocations' =
             [invocations EXCEPT ![i] =
                Cont(@, o, "progress write", "complete")]
        /\ EnvS(o)
    /\ UNCHANGED <<coreVars, startup, thisBrowser, browsers, sessions,
                   nrequests, lastRequest, lastResponse>>

\* await this.completeScan(scanId, summary); then context.close() is called
InvComplete(i) ==
    /\ At(i, "complete")
    /\ \E o \in WriteOutcomes :
        /\ scans' = IF o = "ok"
                    THEN SetCompleted(scans, invocations[i].scanId, i,
                            ComputedSummary(invocations[i].issues,
                                            totalTests(ServerSettings)))
                    ELSE scans
        /\ invocations' =
             [invocations EXCEPT ![i] = Cont(@, o, "summary write", "close")]
        /\ EnvS(o)
    /\ UNCHANGED <<coreVars, startup, thisBrowser, browsers, sessions,
                   nrequests, lastRequest, lastResponse>>

\* await context.close(): the end of the try block
InvClose(i) ==
    /\ At(i, "close")
    /\ \E o \in CallsOn(i) :
        /\ sessions' = IF o = "ok"
                       THEN CloseSession(sessions, invocations[i].context)
                       ELSE sessions
        /\ invocations' =
             [invocations EXCEPT ![i] = Cont(@, o, "close", "done")]
        /\ EnvOn(i, o)
    /\ UNCHANGED <<coreVars, startup, thisBrowser, browsers, nrequests,
                   lastRequest, lastResponse, scans>>

\* catch (error) { await this.failScan(scanId, message) }
InvFail(i) ==
    /\ At(i, "catch")
    /\ \E o \in WriteOutcomes :
        /\ scans' = IF o = "ok"
                    THEN SetFailed(scans, invocations[i].scanId, i,
                                   invocations[i].err)
                    ELSE scans
        /\ invocations' =
             [invocations EXCEPT ![i].pc =
                IF o = "throw" THEN "rejected" ELSE "done"]
        /\ EnvS(o)
    /\ UNCHANGED <<coreVars, startup, thisBrowser, browsers, sessions,
                   nrequests, lastRequest, lastResponse>>

ServerNext ==
    \/ PostScan
    \/ StartupLaunched
    \/ \E i \in InvIds : InvStart(i)
    \/ \E i \in InvIds : InvLaunched(i)
    \/ \E i \in InvIds : InvNewContext(i)
    \/ \E i \in InvIds : InvNewPage(i)
    \/ \E i \in InvIds : InvNavigate(i)
    \/ \E i \in InvIds : InvSetupDone(i)
    \/ \E i \in InvIds : InvInsertTest(i)
    \/ \E i \in InvIds : InvModuleCall(i)
    \/ \E i \in InvIds : InvModuleIssue(i)
    \/ \E i \in InvIds : InvFinalize(i)
    \/ \E i \in InvIds : InvModuleCatch(i)
    \/ \E i \in InvIds : InvProgress(i)
    \/ \E i \in InvIds : InvComplete(i)
    \/ \E i \in InvIds : InvClose(i)
    \/ \E i \in InvIds : InvFail(i)

\* The server at start; the variables of the single invocation followed
\* step by step in Spec stay as they are.
InitServer ==
    /\ settings = ServerSettings
    /\ page = PageClean
    /\ browser = "null"
    /\ InitCommon

SpecServer == InitServer /\ [][ServerNext]_vars

\* ----------------------------------------------------------- shutdown
\* process.on('SIGTERM', async () => { await scanOrchestrator.close();
\*                                     process.exit(0) })

\* The handler runs up to the await of browser.close() in close(): with no
\* browser, close() returns at once and the process exits; otherwise the
\* close of the shared browser and of all its contexts is under way.
Sigterm ==
    /\ proc = "up"
    /\ IF thisBrowser = 0
       THEN /\ proc' = "exited"
            /\ UNCHANGED <<browsers, sessions>>
       ELSE /\ proc' = "closing"
            /\ browsers' = [browsers EXCEPT ![thisBrowser] = "closed"]
            /\ sessions' = [x \in DOMAIN sessions |->
                              IF sessions[x].browser = thisBrowser
                              THEN [sessions[x] EXCEPT !.state = "closed"]
                              ELSE sessions[x]]
    /\ NoFault
    /\ UNCHANGED <<inputVars, orchVars, modVars, dbVars, histVars, whVars,
                   shotVars, createVars, startup, thisBrowser, invocations,
                   nrequests, lastRequest, lastResponse, scans>>

\* await this.browser.close() returns: this.browser = null; process.exit(0).
\* When it raises, the handler's promise is rejected with nobody to catch
\* it: the runtime ends the process or only reports the rejection.
ShutdownClosed ==
    /\ proc = "closing"
    /\ \E o \in CallOutcomes :
        /\ thisBrowser' = IF o = "ok" THEN 0 ELSE thisBrowser
        /\ proc' \in IF o = "ok" THEN {"exited"} ELSE {"exited", "stuck"}
        /\ EnvS(o)
    /\ UNCHANGED <<inputVars, orchVars, modVars, dbVars, histVars, whVars,
                   shotVars, createVars, startup, browsers, sessions,
                   invocations, nrequests, lastRequest, lastResponse, scans>>

ShutdownNext ==
    \/ ServerNext
    \/ Sigterm
    \/ ShutdownClosed

\* The server when all but one of the requests it will receive were
\* answered 400: one scan can still be accepted.
InitShutdown ==
    /\ settings = ServerSettings
    /\ page = PageClean
    /\ browser = "null"
    /\ NotStarted
    /\ scanStatus = "queued"
    /\ scanProgress = P(0)
    /\ scanSummary = InitialSummary
    /\ qa_tests = <<>>
    /\ qa_issues = <<>>
    /\ startup = "launching"
    /\ thisBrowser = 0
    /\ browsers = <<>>
    /\ sessions = <<>>
    /\ invocations = <<>>
    /\ nrequests = MaxRequests - 1
    /\ lastRequest = [url |-> "missing", scanId |-> 0, userId |-> FALSE]
    /\ lastResponse = [code |-> 400, scanId |-> 0]
    /\ scans = [s \in ScanIds |-> QueuedScan]
    /\ proc = "up"
    /\ ReceiverIdle
    /\ Dispatched

SpecShutdown == InitShutdown /\ [][ShutdownNext]_vars

\* While the process lives, every awaited call returns or raises and its
\* continuation runs; the signal itself may never come.
FairSpecShutdown ==
    SpecShutdown /\ WF_vars(ServerNext) /\ WF_vars(ShutdownClosed)

\* ------------------------------------------- the scan-creation function
\* The function that authenticates the caller, inserts the Scan record in
\* status queued and dispatches it to POST /api/scan of the service, whose
\* performCompleteScan then runs as in Spec.

\* The requests: the Authorization header missing, not that of a user, or
\* valid; the url of the body missing, not a URL, or valid.
CreateRequests ==
    [auth : {"missing", "invalid", "valid"},
     url : {"missing", "malformed", "valid"}]

\* The function returns a Response with this status code.
Respond(code) == cpc' = "done" /\ cresp' = code

\* The outcomes of the fetch: a 2xx response, another response, or a raise
\* (AbortSignal.timeout(10000), network error).
DispatchOutcomes ==
    IF nfaults < MaxFaults THEN {"ok", "refused", "throw"} ELSE {"ok"}

\* const authHeader = req.headers.get('Authorization'); if (!authHeader) 401;
\* await supabase.auth.getUser(...); if (authError || !user) 401;
\* if (!url) 400; try { new URL(url) } catch { 400 };
\* then the insert of the Scan record is called
CreateAuth ==
    /\ cpc = "auth"
    /\ IF creq.auth = "missing"
       THEN Respond(401) /\ NoFault
       ELSE \E o \in CallOutcomes :
            /\ Env(o, "auth")
            /\ IF o = "throw" THEN Respond(500)
               ELSE IF creq.auth = "invalid" THEN Respond(401)
               ELSE IF creq.url /= "valid" THEN Respond(400)
               ELSE cpc' = "insert" /\ cresp' = cresp
    /\ UNCHANGED <<srvVars, whVars, sigVars, shotVars, inputVars, orchVars,
                   modVars, dbVars, histVars, creq, created, serviceUrl>>

\* const { data: scan, error: scanError } = await supabase.from('qa_scans')
\*   .insert({ url, status: 'queued', progress: 0, ..., summary: {...} })
\*   .select().single();
\* if (scanError) 500; if (!scanServiceUrl) 503; then fetch is called
CreateInsert ==
    /\ cpc = "insert"
    /\ \E o \in WriteOutcomes :
        /\ Env(o, "persist")
        /\ IF o = "ok"
           THEN /\ created' = TRUE
                /\ scanStatus' = "queued"
                /\ scanProgress' = P(0)
                /\ scanSummary' = InitialSummary
                /\ IF serviceUrl THEN cpc' = "dispatch" /\ cresp' = cresp
                   ELSE Respond(503)
           ELSE /\ Respond(500)
                /\ UNCHANGED <<created, scanVars>>
    /\ UNCHANGED <<srvVars, whVars, sigVars, shotVars, inputVars, orchVars,
                   modVars, qa_tests, qa_issues, histVars, creq, serviceUrl>>

\* const scanResponse = await fetch(`${scanServiceUrl}/api/scan`, {...,
\*   signal: AbortSignal.timeout(10000) });
\* if (!scanResponse.ok) { ...the update to failed is called } else 200.
\* A raise goes to the outer catch: 500.  The service has started the scan
\* when it answered 2xx, and may have when the answer was lost.
CreateDispatch ==
    /\ cpc = "dispatch"
    /\ \E o \in DispatchOutcomes :
        /\ Env(o, "dispatch")
        /\ IF o = "ok" THEN Respond(200) /\ pc' = "queued"
           ELSE IF o = "refused"
           THEN cpc' = "markFailed" /\ cresp' = cresp /\ pc' = pc
           ELSE Respond(500) /\ pc' \in {pc, "queued"}
    /\ UNCHANGED <<srvVars, whVars, sigVars, shotVars, inputVars, cur,
                   completedTests, allIssues, err, browser, context, modVars,
                   dbVars, histVars, creq, created, serviceUrl>>

\* await supabase.from('qa_scans').update({ status: 'failed',
\*   summary: { error: 'Failed to start scan service', details } })
\*   .eq('id', scan.id); then 500
CreateMarkFailed ==
    /\ cpc = "markFailed"
    /\ \E o \in WriteOutcomes :
        /\ Env(o, "persist")
        /\ IF o = "ok"
           THEN /\ scanStatus' = "failed"
                /\ scanSummary' = ErrorSummary("Failed to start scan service")
                /\ UNCHANGED scanProgress
           ELSE UNCHANGED scanVars
    /\ Respond(500)
    /\ UNCHANGED <<srvVars, whVars, sigVars, shotVars, inputVars, orchVars,
                   modVars, qa_tests, qa_issues, histVars, creq, created,
                   serviceUrl>>

CreateNext ==
    \/ CreateAuth
    \/ CreateInsert
    \/ CreateDispatch
    \/ CreateMarkFailed
    \/ Next

\* A request arrives at the function; the service is running with its
\* browser launched or not; the request names no tests, or SEO alone.
InitCreate ==
    /\ settings \in {[given |-> FALSE, flags |-> [k \in Keys |-> FALSE]],
                     OnlyModule("seo")}
    /\ page = PageBroken
    /\ Locals("waiting")
    /\ scanStatus = "none"
    /\ scanProgress = P(0)
    /\ scanSummary = InitialSummary
    /\ qa_tests = <<>>
    /\ qa_issues = <<>>
    /\ ServerIdle
    /\ ReceiverIdle
    /\ cpc = "auth"
    /\ creq \in CreateRequests
    /\ cresp = 0
    /\ created = FALSE
    /\ serviceUrl \in BOOLEAN

SpecCreate == InitCreate /\ [][CreateNext]_vars

\* Every awaited call of the function and of the service returns or
\* raises, and its continuation runs.
FairSpecCreate == SpecCreate /\ WF_vars(CreateNext)

\* ------------------------------------------- the notification receiver
\* The scan-webhook function.  One delivery is one step: the handler's four
\* writes in their order.  At most one of them fails in a delivery: it
\* resolves with an error, which is logged, or it raises, which ends the
\* handler with the answer 500.

Blocks == <<"scan", "currentTest", "test", "issue">>

BlockIndex(b) == CHOOSE n \in 1..Len(Blocks) : Blocks[n] = b

\* if (status), if (currentTest), if (test), if (issue)
Present(m, b) ==
    CASE b = "scan" -> m.status /= "-"
      [] b = "currentTest" -> m.currentTest /= NoCurrentTest
      [] b = "test" -> m.test /= NoTest
      [] b = "issue" -> m.issue /= NoIssue

NoFailure == [block |-> "none", how |-> "error"]

\* The write of one of the blocks of message m fails.
Failures(m) ==
    {NoFailure}
    \cup {[block |-> Blocks[n], how |-> h] :
             n \in {k \in 1..Len(Blocks) : Present(m, Blocks[k])},
             h \in {"error", "throw"}}

\* The write of block b of message m is made and applied under failure f:
\* the block is present, no earlier write raised, and this one succeeds.
Applied(m, f, b) ==
    /\ Present(m, b)
    /\ f.block /= b
    /\ ~(/\ f.block /= "none"
         /\ f.how = "throw"
         /\ BlockIndex(f.block) < BlockIndex(b))

\* update({ status: x.status, ... }).eq('id', x.testId) on qa_tests
UpdateTestStatus(tests, id, status) ==
    IF id \in 1..Len(tests)
    THEN [tests EXCEPT ![id].status = status]
    ELSE tests

\* update({ status, score, duration, last_run }).eq('id', test.id)
UpdateTestResult(tests, id, status, score) ==
    IF id \in 1..Len(tests)
    THEN [tests EXCEPT ![id].status = status, ![id].score = score]
    ELSE tests

\* if (!scanId) return 400: nothing else of the message is read (the
\* messages without scanId are taken without test and issue parts).
WebhookReject ==
    /\ ndeliveries < MaxDeliveries
    /\ \E m \in Messages :
        /\ ~m.scanId
        /\ m.currentTest = NoCurrentTest
        /\ m.test = NoTest
        /\ m.issue = NoIssue
        /\ lastDelivery' = [msg |-> m, code |-> 400, failed |-> FALSE]
    /\ ndeliveries' = ndeliveries + 1
    /\ NoFault
    /\ UNCHANGED <<inputVars, orchVars, modVars, dbVars, histVars, srvVars, sigVars,
                   createVars,
                   shotVars>>

\* The status block builds updateData = { status } and adds progress when
\* it is defined, summary when given, then summary = { error } when error
\* is given; the three other blocks follow.
WebhookDeliver ==
    /\ ndeliveries < MaxDeliveries
    /\ \E m \in Messages : \E f \in Failures(m) :
        /\ m.scanId
        /\ IF Applied(m, f, "scan")
           THEN /\ scanStatus' = m.status
                /\ scanProgress' = IF m.progress /= NoValue THEN m.progress
                                    ELSE scanProgress
                /\ scanSummary' = IF m.error /= "-" THEN ErrorSummary(m.error)
                                   ELSE IF m.summary /= NoSummary
                                   THEN m.summary
                                   ELSE scanSummary
           ELSE UNCHANGED scanVars
        /\ qa_tests' =
             LET t1 == IF Applied(m, f, "currentTest")
                       THEN UpdateTestStatus(qa_tests, m.currentTest.testId,
                                             m.currentTest.status)
                       ELSE qa_tests
             IN IF Applied(m, f, "test")
                THEN UpdateTestResult(t1, m.test.id, m.test.status,
                                      m.test.score)
                ELSE t1
        /\ qa_issues' = IF Applied(m, f, "issue")
                         THEN Append(qa_issues,
                                     IssueRow(m.issue.testId, m.issue.category,
                                              m.issue.severity))
                         ELSE qa_issues
        /\ lastDelivery' =
             [msg |-> m,
              code |-> IF f /= NoFailure /\ f.how = "throw" THEN 500 ELSE 200,
              failed |-> f /= NoFailure]
    /\ ndeliveries' = ndeliveries + 1
    /\ NoFault
    /\ UNCHANGED <<inputVars, orchVars, modVars, histVars, srvVars, sigVars,
                   createVars, shotVars>>

WebhookNext == WebhookReject \/ WebhookDeliver

\* The records of a scan at some point of its run, with the TestRun of one
\* module: queued, running, completed or failed.
InitWebhook ==
    /\ settings = OnlyModule("seo")
    /\ page = PageClean
    /\ browser = "open"
    /\ NotStarted
    /\ \/ /\ scanStatus = "queued"
          /\ scanProgress = P(0)
          /\ scanSummary = InitialSummary
          /\ qa_tests = <<>>
       \/ /\ scanStatus = "running"
          /\ scanProgress = P(5)
          /\ scanSummary = InitialSummary
          /\ qa_tests = <<TestRun("seo")>>
       \/ /\ scanStatus = "completed"
          /\ scanProgress = P(100)
          /\ scanSummary = ComputedSummary(<<>>, 1)
          /\ qa_tests = <<[TestRun("seo") EXCEPT !.status = "completed",
                                                !.score = 100]>>
       \/ /\ scanStatus = "failed"
          /\ scanProgress = P(5)
          /\ scanSummary = ErrorSummary("goto")
          /\ qa_tests = <<>>
    /\ qa_issues = <<>>
    /\ ServerIdle
    /\ ReceiverIdle
    /\ Dispatched

SpecWebhook == InitWebhook /\ [][WebhookNext]_vars

\* ------------------------------------------- the variant with screenshots
\* The performCompleteScan that captures a screenshot per viewport between
\* the navigation and the modules, and calls two modules only.  Its setup,
\* its modules, its context.close() and its catch are the actions above.

\* settings.tests || { performance: true, accessibility: true }
ShotsDefaultTests == [k \in Keys |-> k \in {"performance", "accessibility"}]

ShotsTestsToRun(s) == IF s.given THEN s.flags ELSE ShotsDefaultTests

ShotsTotalTests(s) == Cardinality({k \in Keys : ShotsTestsToRun(s)[k]})

\* The modules this variant calls: its two ifs.
ShotsModules == 2

\* 20 + (completedTests / totalTests) * 70
ShotsModuleProgress(k, n) == P(20) + (k * P(70)) \div n

\* The requests of this specification: no tests given, or any choice of
\* the two modules the variant knows.
ShotsSettings ==
    {[given |-> FALSE, flags |-> [k \in Keys |-> FALSE]]}
    \cup {[given |-> TRUE, flags |-> f] :
             f \in {g \in [Keys -> BOOLEAN] :
                      \A k \in Keys :
                        g[k] => k \in {"performance", "accessibility"}}}

\* await this.updateScanStatus(scanId, 'running', 5);
\* const screenshots = { mobile: null, tablet: null, desktop: null }
ShotsSetupDone ==
    /\ pc = "setup"
    /\ \E o \in WriteOutcomes :
        /\ updateScanStatus(o, "running", P(5))
        /\ Env(o, "persist")
        /\ Raise(o, "progress write", "viewport")
        /\ vp' = IF o = "throw" THEN vp ELSE 1
    /\ UNCHANGED <<srvVars, whVars, sigVars, createVars, screenshots, scanScreenshots,
                   inputVars, cur, completedTests, allIssues, browser, context,
                   modVars, qa_tests, qa_issues, histVars>>

\* for (const viewport of viewports) {
\*   await page.setViewportSize({ width, height })
SetViewport ==
    /\ pc = "viewport"
    /\ vp \in 1..Len(Viewports)
    /\ \E o \in CallOutcomes :
        /\ Env(o, "viewport")
        /\ Raise(o, "setViewportSize", "wait")
    /\ UNCHANGED <<srvVars, whVars, sigVars, createVars, shotVars,
                   inputVars, cur, completedTests, allIssues, browser, context,
                   modVars, dbVars, histVars>>

\*   await page.waitForTimeout(1000)
WaitLayout ==
    /\ pc = "wait"
    /\ \E o \in CallOutcomes :
        /\ Env(o, "viewport")
        /\ Raise(o, "waitForTimeout", "capture")
    /\ UNCHANGED <<srvVars, whVars, sigVars, createVars, shotVars,
                   inputVars, cur, completedTests, allIssues, browser, context,
                   modVars, dbVars, histVars>>

\*   const screenshot = await page.screenshot({ type: 'png', fullPage: true })
\* The call is not guarded: when it raises, the error goes to the catch of
\* performCompleteScan.
Capture ==
    /\ pc = "capture"
    /\ \E o \in CallOutcomes :
        /\ Env(o, "capture")
        /\ Raise(o, "screenshot", "upload")
    /\ UNCHANGED <<srvVars, whVars, sigVars, createVars, shotVars,
                   inputVars, cur, completedTests, allIssues, browser, context,
                   modVars, dbVars, histVars>>

\*   const uploadedUrl = await this.uploadScreenshot(screenshot, scanId, name)
\*   if (uploadedUrl) screenshots[viewport.name] = uploadedUrl }
\* uploadScreenshot returns null when the upload resolves with an error and
\* when it raises.
Upload ==
    /\ pc = "upload"
    /\ \E o \in WriteOutcomes :
        /\ screenshots' = IF o = "ok"
                          THEN [screenshots EXCEPT ![Viewports[vp]] = "url"]
                          ELSE screenshots
        /\ Env(o, "upload")
    /\ vp' = vp + 1
    /\ pc' = IF vp = Len(Viewports) THEN "save" ELSE "viewport"
    /\ UNCHANGED <<srvVars, whVars, sigVars, createVars, scanScreenshots,
                   inputVars, cur, completedTests, allIssues, err, browser,
                   context, modVars, dbVars, histVars>>

\* await this.supabase.from('qa_scans').update({ screenshots }).eq('id', scanId)
SaveScreenshots ==
    /\ pc = "save"
    /\ \E o \in WriteOutcomes :
        /\ scanScreenshots' = IF o = "ok" THEN screenshots ELSE scanScreenshots
        /\ Env(o, "persist")
        /\ Raise(o, "screenshots write", "captured")
    /\ UNCHANGED <<srvVars, whVars, sigVars, createVars, vp, screenshots,
                   inputVars, cur, completedTests, allIssues, browser, context,
                   modVars, dbVars, histVars>>

\* await this.updateScanStatus(scanId, 'running', 20); then testsToRun,
\* totalTests, completedTests = 0, allIssues = []
ShotsCaptured ==
    /\ pc = "captured"
    /\ \E o \in WriteOutcomes :
        /\ updateScanStatus(o, "running", P(20))
        /\ Env(o, "persist")
        /\ Raise(o, "progress write", "modules")
        /\ cur' = IF o = "throw" THEN cur ELSE 1
    /\ completedTests' = 0
    /\ allIssues' = <<>>
    /\ UNCHANGED <<srvVars, whVars, sigVars, createVars, shotVars,
                   inputVars, browser, context, modVars, qa_tests, qa_issues,
                   histVars>>

\* if (testsToRun.<category>) is false
ShotsSkipModule ==
    /\ pc = "modules"
    /\ cur \in 1..ShotsModules
    /\ ~ShotsTestsToRun(settings)[Order[cur]]
    /\ cur' = cur + 1
    /\ NoFault
    /\ UNCHANGED <<srvVars, whVars, sigVars, createVars, shotVars,
                   inputVars, pc, completedTests, allIssues, err, browser,
                   context, modVars, dbVars, histVars>>

\* if (testsToRun.<category>) await this.<category>Scanner.scan(page, url, scanId)
ShotsCallModule ==
    /\ pc = "modules"
    /\ cur \in 1..ShotsModules
    /\ ShotsTestsToRun(settings)[Order[cur]]
    /\ pc' = "module"
    /\ mpc' = "insert"
    /\ testId' = 0
    /\ issues' = <<>>
    /\ pidx' = 1
    /\ started' = Append(started, Order[cur])
    /\ NoFault
    /\ UNCHANGED <<srvVars, whVars, sigVars, createVars, shotVars,
                   inputVars, cur, completedTests, allIssues, err, browser,
                   context, dbVars, ended, engineFailed, attempts,
                   everCompleted, escaped, failOutcome>>

\* await this.updateScanStatus(scanId, 'running',
\*                             20 + (completedTests / totalTests) * 70)
ShotsUpdateProgress ==
    /\ pc = "progress"
    /\ \E o \in WriteOutcomes :
        /\ updateScanStatus(o, "running",
                            ShotsModuleProgress(completedTests,
                                                ShotsTotalTests(settings)))
        /\ Env(o, "persist")
        /\ Raise(o, "progress write", "modules")
        /\ cur' = IF o = "throw" THEN cur ELSE cur + 1
    /\ UNCHANGED <<srvVars, whVars, sigVars, createVars, shotVars,
                   inputVars, completedTests, allIssues, browser, context,
                   modVars, qa_tests, qa_issues, histVars>>

\* const summary = {...}; await this.completeScan(scanId, summary)
ShotsComplete ==
    /\ pc = "modules"
    /\ cur = ShotsModules + 1
    /\ \E o \in WriteOutcomes :
        /\ completeScan(o, ComputedSummary(allIssues, ShotsTotalTests(settings)))
        /\ everCompleted' = (everCompleted \/ o = "ok")
        /\ Env(o, "persist")
        /\ Raise(o, "summary write", "close")
    /\ UNCHANGED <<srvVars, whVars, sigVars, createVars, shotVars,
                   inputVars, cur, completedTests, allIssues, browser, context,
                   modVars, qa_tests, qa_issues, started, ended, engineFailed,
                   attempts, escaped, failOutcome>>

ShotsNext ==
    \/ ScanStart
    \/ AcquireBrowser
    \/ NewContext
    \/ NewPage
    \/ Navigate
    \/ ShotsSetupDone
    \/ SetViewport
    \/ WaitLayout
    \/ Capture
    \/ Upload
    \/ SaveScreenshots
    \/ ShotsCaptured
    \/ ShotsSkipModule
    \/ ShotsCallModule
    \/ InsertTest
    \/ ModuleCall
    \/ ModuleIssue
    \/ ModuleTypeError
    \/ Finalize
    \/ ModuleCatch
    \/ ModuleReturn
    \/ ShotsUpdateProgress
    \/ ShotsComplete
    \/ CloseContext
    \/ Fail

InitShots ==
    /\ settings \in ShotsSettings
    /\ page \in Pages
    /\ InitCommon

SpecShots == InitShots /\ [][ShotsNext]_vars

\* ------------------------------------------------------------- types

Finished == pc \in {"done", "rejected"}

TypeOK ==
    /\ settings \in Settings
    /\ DOMAIN page = DOMAIN PageClean
    /\ Len(page.violations) <= MaxViolations
    /\ pc \in {"queued", "browser", "context", "page", "goto", "setup",
               "modules", "module", "progress", "close", "catch", "done",
               "rejected", "viewport", "wait", "capture", "upload", "save",
               "captured", "waiting"}
    /\ proc \in {"up", "closing", "exited", "stuck"}
    /\ cur \in 0..(Len(Order) + 1)
    /\ mpc \in {"idle", "insert", "run", "catch", "return"}
    /\ scanStatus \in {"none", "queued", "running", "completed", "failed"}
    /\ cpc \in {"auth", "insert", "dispatch", "markFailed", "done"}
    /\ cresp \in {0, 200, 400, 401, 500, 503}
    /\ nfaults \in 0..MaxFaults
    /\ testId \in 0..Len(qa_tests)
    /\ \A i \in 1..Len(qa_tests) :
        qa_tests[i].status \in {"running", "completed", "failed"}

\* ------------------------------------------------------------ properties

Terminal == {"completed", "failed"}

\* The enabled modules in the order the specification fixes for them.
EnabledSeq ==
    SelectSeq(<<"performance", "accessibility", "seo", "security",
                "best_practices">>,
              LAMBDA c : testsToRun(settings)[c])

TestRunsOf(tests, c) == {i \in 1..Len(tests) : tests[i].category = c}

\* The module of category c was called and its call is over.
Returned(c) ==
    \E i \in 1..Len(started) :
        /\ started[i] = c
        /\ (i < Len(started) \/ ended = Len(started))

\* The exception caught at the top level was raised after navigation.
AfterSetupErrors ==
    {"progress write", "test update", "summary write", "close"}

\* C1: within one performCompleteScan invocation the Scan status never moves
\* backwards along queued, running, {completed, failed}, and once completed
\* or failed has been written no later step changes the status, neither back
\* to queued or running nor from one terminal status to the other.
C1_StatusFinal ==
    [][/\ scanStatus \in Terminal => scanStatus' = scanStatus
       /\ scanStatus = "running" => scanStatus' # "queued"]_vars

\* C2: the progress values written to the Scan record never decrease, and
\* progress is 100 only while the status is completed or failed.
C2_ProgressMonotone ==
    [][/\ scanProgress' >= scanProgress
       /\ scanProgress' = P(100) => scanStatus' \in Terminal]_vars

C2_Witness ==
    /\ scanStatus = "completed"
    /\ scanProgress = P(100)
    /\ Len(started) >= 3
    /\ "persist" \notin faultKinds

\* C3: a module's scan never raises to the orchestrator, whichever of its
\* external calls fails, and returns an empty list when its TestRun could not
\* be created.
C3_ModuleNeverRaises ==
    /\ escaped = {}
    /\ (mpc = "return" /\ testId = 0) => issues = <<>>

\* C4: when modules fail internally (an engine or page call raises) and
\* nothing else fails, each such module's TestRun ends failed, every enabled
\* module is still called in order, and the Scan ends completed.
C4_ModuleFailureContained ==
    (Finished /\ engineFailed # {} /\ faultKinds \subseteq {"engine"})
    => /\ scanStatus = "completed"
       /\ started = EnabledSeq
       /\ \A c \in engineFailed :
            \A i \in TestRunsOf(qa_tests, c) : qa_tests[i].status = "failed"
       /\ \A c \in engineFailed : TestRunsOf(qa_tests, c) # {}

C4_Witness ==
    /\ Finished
    /\ faultKinds = {"engine"}
    /\ Len(started) >= 3
    /\ started[1] \in engineFailed

TruthyFlags ==
    IF settings.given THEN {k \in Keys : settings.flags[k]} ELSE Categories

Deduction(iss) ==
    20 * CountIn(iss, {"critical"}) + 10 * CountIn(iss, {"high"})
    + 5 * CountIn(iss, {"medium"}) + 2 * CountIn(iss, {"low"})

C6_OverallScore ==
    scanStatus = "completed"
    => /\ scanSummary.overallScore =
            IF Deduction(allIssues) >= 100 THEN 0
            ELSE 100 - Deduction(allIssues)
       /\ scanSummary.overallScore \in 0..100
       /\ allIssues = <<>> => scanSummary.overallScore = 100

C6_Witness ==
    /\ scanStatus = "completed"
    /\ Deduction(allIssues) > 100
    /\ scanSummary.overallScore = 0

\* C7: when browser launch, context or page creation, or the navigation
\* fails, no module is called and no TestRun or Issue is created, no setup
\* step is attempted a second time, and the Scan ends failed with the error
\* message in Summary.error (failScan's write being applied).
C7_SetupFailure ==
    "setup" \in faultKinds
    => /\ pc \in {"catch", "done", "rejected"}
       /\ err \in SetupSteps
       /\ started = <<>>
       /\ qa_tests = <<>>
       /\ qa_issues = <<>>
       /\ \A st \in SetupSteps : attempts[st] <= 1
       /\ (Finished /\ failOutcome = "ok")
          => /\ scanStatus = "failed"
             /\ scanSummary = ErrorSummary(err)

C7_Witness ==
    /\ Finished
    /\ err = "goto"
    /\ failOutcome = "ok"
    /\ scanStatus = "failed"
    /\ scanSummary.error = "goto"

\* C8: when an exception escapes a step after setup, no further module is
\* called, the Scan is never marked completed in that invocation, and it
\* ends failed with the error message in Summary.error (failScan's write
\* being applied).
C8_EscapeMarksFailed ==
    err \in AfterSetupErrors
    => /\ pc \in {"catch", "done", "rejected"}
       /\ mpc = "idle"
       /\ ~everCompleted
       /\ (Finished /\ failOutcome = "ok")
          => /\ scanStatus = "failed"
             /\ scanSummary = ErrorSummary(err)

IsPrefix(s, t) == Len(s) <= Len(t) /\ \A i \in 1..Len(s) : s[i] = t[i]

\* C9: the modules are called in the order performance, accessibility, seo,
\* security, best_practices, the disabled ones left out, and a module is
\* called only when every earlier call is over: at most one is executing.
C9_SequentialInOrder ==
    /\ IsPrefix(started, EnabledSeq)
    /\ ended <= Len(started)
    /\ Len(started) <= ended + 1
    /\ mpc # "idle" <=> Len(started) = ended + 1
    /\ (pc = "done" /\ faultKinds = {}) => started = EnabledSeq

C9_Witness ==
    /\ Len(started) = 5
    /\ ended = 4
    /\ mpc = "run"

TestRunDone(t) == t.status \in {"completed", "failed"}

\* What C10 says of every step whatever fails: at most one TestRun per
\* category, a new TestRun is created running, a completed or failed one
\* never changes.
TestRunSteps ==
    /\ \A c \in Categories : Cardinality(TestRunsOf(qa_tests', c)) <= 1
    /\ \A i \in 1..Len(qa_tests') :
        /\ i > Len(qa_tests) => qa_tests'[i].status = "running"
        /\ (i <= Len(qa_tests) /\ TestRunDone(qa_tests[i]))
           => qa_tests'[i] = qa_tests[i]

\* Once the module of category c has returned there is exactly one TestRun
\* of c, completed or failed.
TestRunClosed(c) ==
    Returned(c) => /\ Cardinality(TestRunsOf(qa_tests, c)) = 1
                   /\ \A i \in TestRunsOf(qa_tests, c) : TestRunDone(qa_tests[i])

\* C10 as stated: exactly one TestRun per enabled category, created running
\* at module start, completed or failed once the module has returned, never
\* changed afterwards.
C10_OneTestRunPerModule ==
    [][/\ TestRunSteps
       /\ \A c \in Categories : TestRunClosed(c)']_vars

\* C10 amended: at most one TestRun per enabled category, created running
\* at module start and never changed once completed or failed; when no
\* persistence write fails there is exactly one per enabled category once
\* its module has returned, and it is completed or failed.
C10_OneTestRunUnlessWriteFails ==
    [][/\ TestRunSteps
       /\ \A c \in Categories :
            /\ c \notin {started'[i] : i \in 1..Len(started')}
               => TestRunsOf(qa_tests', c) = {}
            /\ "persist" \notin faultKinds' => TestRunClosed(c)']_vars

C10_Witness ==
    /\ Finished
    /\ "persist" \notin faultKinds
    /\ Len(qa_tests) >= 3
    /\ \E i \in 1..Len(qa_tests) : qa_tests[i].status = "failed"
    /\ \E i \in 1..Len(qa_tests) : qa_tests[i].status = "completed"

\* ------------------------------------------------------------------ C11

\* C11: every step that inserts an Issue inserts it with the id of one
\* existing TestRun, which is running before and after the insert and has
\* the Issue's category, and the Issue is open; Issues already inserted
\* keep their TestRun and category. (All records of this specification
\* belong to the one scan it runs.)
C11_IssueBelongsToRunningTestRun ==
    [][/\ Len(qa_issues') >= Len(qa_issues)
       /\ \A i \in 1..Len(qa_issues') :
            IF i <= Len(qa_issues)
            THEN qa_issues'[i] = qa_issues[i]
            ELSE /\ qa_issues'[i].status = "open"
                 /\ qa_issues'[i].test_id \in 1..Len(qa_tests)
                 /\ qa_tests[qa_issues'[i].test_id].status = "running"
                 /\ qa_tests'[qa_issues'[i].test_id].status = "running"
                 /\ qa_tests[qa_issues'[i].test_id].category
                      = qa_issues'[i].category]_vars

\* Issues of two TestRuns of different categories have been inserted.
C11_Witness ==
    \E i, j \in 1..Len(qa_issues) :
        /\ qa_issues[i].test_id /= qa_issues[j].test_id
        /\ qa_issues[i].category /= qa_issues[j].category
        /\ qa_issues[i].category = "seo"

\* ------------------------------------------------------------------ C12

\* C12: once a scan is completed, the modules invoked are all five, N = 5,
\* when the settings give no tests, and otherwise exactly the modules whose
\* flag is true; and N, the Summary's totalTests and the divisor of the
\* progress steps, is the number of modules invoked.
C12_NEqualsModulesInvoked ==
    scanStatus = "completed" =>
        /\ started = EnabledSeq
        /\ ~settings.given => Len(started) = 5
        /\ scanSummary.totalTests = Len(started)
        /\ totalTests(settings) = Len(started)

\* ------------------------------------------------------------------ C19

\* The module of category c has run to its end, about to return its list,
\* and no external call of the scan has failed.
RanClean(c) ==
    /\ pc = "module"
    /\ Cat = c
    /\ mpc = "return"
    /\ nfaults = 0

ImpactSeverity ==
    ("critical" :> "critical") @@ ("serious" :> "high")
    @@ ("moderate" :> "medium") @@ ("minor" :> "low")

\* Number of (violation, node) pairs of the violations before the i-th.
PairsBefore(vs, i) == SumSeq([k \in 1..(i - 1) |-> vs[k].nodes])

\* C19: when the Accessibility module runs to its end with no failing call,
\* the list it returns and the Issues it inserted hold exactly one entry per
\* (violation, node) pair, in order, and every node of a violation gets the
\* severity critical, high, medium, low for impact critical, serious,
\* moderate, minor, and medium for an absent or unknown impact.
C19_AccessibilityIssues ==
    RanClean("accessibility") =>
        LET vs == page.violations IN
        /\ Len(issues) = PairsBefore(vs, Len(vs) + 1)
        /\ \A i \in 1..Len(vs) : \A j \in 1..vs[i].nodes :
              issues[PairsBefore(vs, i) + j]
                = IF vs[i].impact \in DOMAIN ImpactSeverity
                  THEN ImpactSeverity[vs[i].impact] ELSE "medium"
        /\ Len(qa_issues) = Len(issues)
        /\ \A n \in 1..Len(qa_issues) :
              /\ qa_issues[n].severity = issues[n]
              /\ qa_issues[n].category = "accessibility"

\* Two violations, the first without impact on two nodes, the second
\* serious on one node.
C19_Witness ==
    /\ RanClean("accessibility")
    /\ Len(page.violations) = 2
    /\ page.violations[1] = [impact |-> "none", nodes |-> 2]
    /\ page.violations[2] = [impact |-> "serious", nodes |-> 1]
    /\ issues = <<"medium", "medium", "high">>

\* ------------------------------------------------------------------ C20

\* C20: when the SEO module runs to its end with no failing call, the list
\* it returns holds, in this order: for the title, high if it is empty or
\* missing, medium if it is longer than 60; for the meta description, high
\* if it is missing or empty, medium if it is longer than 160; for the H1
\* headings, high if there is none, medium if there are several; nothing
\* else: at most one Issue per check, at most three.
C20_SEOIssues ==
    RanClean("seo") =>
        LET title == IF page.titleLen = 0 THEN <<"high">>
                     ELSE IF page.titleLen >= 61 THEN <<"medium">> ELSE <<>>
            meta == IF page.metaCount = 0 \/ page.metaLen = 0 THEN <<"high">>
                    ELSE IF page.metaLen >= 161 THEN <<"medium">> ELSE <<>>
            h1 == IF page.h1Count = 0 THEN <<"high">>
                  ELSE IF page.h1Count = 1 THEN <<>> ELSE <<"medium">>
        IN /\ issues = title \o meta \o h1
           /\ Len(issues) <= 3
           /\ Len(qa_issues) = Len(issues)
           /\ \A n \in 1..Len(qa_issues) :
                 /\ qa_issues[n].severity = issues[n]
                 /\ qa_issues[n].category = "seo"

\* A title of 61 characters, a description of 160, no H1.
C20_Witness ==
    /\ RanClean("seo")
    /\ page.titleLen = 61
    /\ page.metaCount = 1
    /\ page.metaLen = 160
    /\ page.h1Count = 0
    /\ issues = <<"medium", "high">>

\* ------------------------------------------------------------------ C18

\* C18 as stated: every invocation of performCompleteScan eventually ends
\* with the Scan record completed or failed.
C18_EndsTerminal == <>(Finished /\ scanStatus \in Terminal)

\* C18 amended: every invocation eventually returns or rejects, and it
\* leaves the Scan record completed or failed exactly when the write of
\* completeScan or the write of failScan was applied.
C18_EndsAndTerminalIfWritten ==
    /\ <>Finished
    /\ [](Finished =>
            (scanStatus \in Terminal <=> (everCompleted \/ failOutcome = "ok")))

\* The invocation has ended and the record is still running: the write of
\* failScan failed.
C18_Witness ==
    /\ Finished
    /\ scanStatus = "running"
    /\ failOutcome \in {"error", "throw"}

\* ------------------------------------------------------------------ C13

\* C13: a request is answered 400, and starts no invocation, when url,
\* scanId or userId is missing or the url is malformed; any other request
\* starts exactly one invocation, for its scanId, and is answered 202 with
\* that scanId while the invocation has not ended and has written nothing.
\* No other step starts an invocation.
C13_ScanEndpoint ==
    [][IF nrequests' /= nrequests
       THEN LET b == lastRequest' IN
            IF \/ b.url = "missing"
               \/ b.scanId = 0
               \/ ~b.userId
               \/ b.url = "malformed"
            THEN /\ lastResponse'.code = 400
                 /\ invocations' = invocations
                 /\ scans' = scans
            ELSE /\ lastResponse' = [code |-> 202, scanId |-> b.scanId]
                 /\ Len(invocations') = Len(invocations) + 1
                 /\ SubSeq(invocations', 1, Len(invocations)) = invocations
                 /\ invocations'[Len(invocations')].scanId = b.scanId
                 /\ invocations'[Len(invocations')].pc
                      \notin {"done", "rejected"}
                 /\ scans' = scans
       ELSE Len(invocations') = Len(invocations)]_vars

\* A request was accepted, its scan is in flight, and a later request with a
\* malformed url was answered 400.
C13_Witness ==
    /\ nrequests = 2
    /\ lastRequest = [url |-> "malformed", scanId |-> 1, userId |-> TRUE]
    /\ lastResponse.code = 400
    /\ Len(invocations) = 1
    /\ invocations[1].pc = "run"
    /\ scans[1].status = "running"

\* ------------------------------------------------------------------ C14

\* C14: at most one browser has been launched while none has been closed,
\* and every session was created on the same browser.
C14_BrowserSingleton ==
    /\ (\A b \in 1..Len(browsers) : browsers[b] = "open")
         => Len(browsers) <= 1
    /\ \A c, d \in 1..Len(sessions) :
         sessions[c].browser = sessions[d].browser

\* ------------------------------------------------------------------ C15

\* C15: the step in which invocation i gets the answer of context.close()
\* changes no other context and no page of another scan, leaves every
\* browser open and this.browser as it was, changes no other invocation,
\* and when the scan completes its own context is closed.
C15_CloseOnlyOwnContext ==
    [][\A i \in InvIds :
         (At(i, "close") /\ invocations'[i].pc /= "close") =>
            /\ browsers' = browsers
            /\ thisBrowser' = thisBrowser
            /\ \A b \in 1..Len(browsers') : browsers'[b] = "open"
            /\ Len(sessions') = Len(sessions)
            /\ \A c \in 1..Len(sessions) :
                 c /= invocations[i].context => sessions'[c] = sessions[c]
            /\ invocations'[i].pc = "done" =>
                 sessions'[invocations[i].context] =
                    [sessions[invocations[i].context]
                        EXCEPT !.state = "closed"]
            /\ \A j \in 1..Len(invocations) :
                 j /= i => invocations'[j] = invocations[j]]_vars

\* One scan has completed and closed its context while another one, on the
\* same browser, is running its module on its open page.
C15_Witness ==
    \E i, j \in 1..Len(invocations) :
        /\ invocations[i].pc = "done"
        /\ invocations[i].context /= 0
        /\ sessions[invocations[i].context].state = "closed"
        /\ invocations[j].pc = "run"
        /\ sessions[invocations[j].context].state = "open"
        /\ sessions[invocations[j].context].pages = 1
        /\ sessions[invocations[j].context].browser
             = sessions[invocations[i].context].browser

\* ------------------------------------------------------------------ C16

\* No two invocations were started for the same scan id.
DistinctScanIds ==
    \A i, j \in 1..Len(invocations) :
        i /= j => invocations[i].scanId /= invocations[j].scanId

\* The records of the scan of invocation i are what i alone made them: only
\* i has written them; there is at most its one TestRun; every Issue
\* recorded is one it found, under its TestRun; a completed Scan carries the
\* Summary of its own issue list and progress 100, a failed one its own
\* error message, and a Scan still queued its initial Summary.
OwnRecords(i) ==
    LET inv == invocations[i]
        r == scans[inv.scanId]
    IN /\ r.writers \subseteq {i}
       /\ Len(r.tests) <= 1
       /\ Len(r.issues) <= Len(inv.issues)
       /\ \A n \in 1..Len(r.issues) :
            /\ r.issues[n].test_id = inv.testId
            /\ r.issues[n].severity = inv.issues[n]
       /\ r.status = "completed" =>
            /\ r.summary = ComputedSummary(inv.issues, 1)
            /\ r.progress = P(100)
       /\ r.status = "failed" => r.summary = ErrorSummary(inv.err)
       /\ r.status = "queued" => r.summary = InitialSummary

\* C16: as long as the invocations have distinct scan ids, a step of one
\* invocation changes no other invocation (its context, page and issue
\* list included), no record of another scan and no context of another
\* scan; a step of no invocation changes no record; no two invocations have
\* the same context; and the records of each scan are those its own
\* invocation alone produced.
C16_ScansIsolated ==
    [][DistinctScanIds' =>
        /\ \A i \in 1..Len(invocations) :
             invocations'[i] /= invocations[i] =>
                /\ \A j \in 1..Len(invocations) :
                     j /= i => invocations'[j] = invocations[j]
                /\ \A s \in ScanIds :
                     s /= invocations[i].scanId => scans'[s] = scans[s]
                /\ \A c \in 1..Len(sessions) :
                     sessions[c].owner /= i => sessions'[c] = sessions[c]
        /\ SubSeq(invocations', 1, Len(invocations)) = invocations
             => scans' = scans
        /\ \A i, j \in 1..Len(invocations') :
             (i /= j /\ invocations'[i].context /= 0)
                => invocations'[i].context /= invocations'[j].context
        /\ \A i \in 1..Len(invocations') : OwnRecords(i)'
        /\ \A s \in ScanIds :
             (\A i \in 1..Len(invocations') : invocations'[i].scanId /= s)
                => scans'[s] = QueuedScan]_vars

\* Two scans with distinct ids ran interleaved (the second created its
\* context first): the first completed with its one Issue, the second
\* failed.
C16_Witness ==
    /\ Len(invocations) = 2
    /\ DistinctScanIds
    /\ Len(sessions) = 2
    /\ sessions[1].owner = 2
    /\ scans[invocations[1].scanId].status = "completed"
    /\ Len(scans[invocations[1].scanId].issues) = 1
    /\ scans[invocations[2].scanId].status = "failed"
    /\ Len(scans[invocations[2].scanId].issues) = 0

\* ------------------------------------------------------------------ C17

\* C17: no two invocations are started for the same scan id, and the
\* records of each scan are written by at most one invocation.
C17_OneInvocationPerScan ==
    /\ DistinctScanIds
    /\ \A s \in ScanIds : Cardinality(scans[s].writers) <= 1

\* ------------------------------------------------------------------ C21

\* C21: when the Security module returns from a run on an http URL in which
\* no persistence write failed, its list holds a high Issue (No HTTPS is
\* the only high Issue of the module), whatever headers the response
\* carries and however the module's own page.goto(url) ended.
C21_NoHttpsAlways ==
    (/\ pc = "module"
     /\ Cat = "security"
     /\ mpc = "return"
     /\ ~page.https
     /\ "persist" \notin faultKinds)
    => \E n \in 1..Len(issues) : issues[n] = "high"

\* ------------------------------------------------------------------ C22

\* The example: no title, no meta description, two H1 elements, served over
\* http without the two headers, only SEO and Security enabled, no external
\* failure, and the scan completed.
ExampleCompleted ==
    /\ page = PageExample
    /\ settings = [given |-> TRUE,
                   flags |-> [k \in Keys |-> k \in {"seo", "security"}]]
    /\ nfaults = 0
    /\ scanStatus = "completed"

\* C22 as stated: the example completes with 7 issues, 3 high and 4 medium,
\* criticalIssues 3, overallScore 50 and totalTests = completedTests = 2.
C22_ExampleSevenIssues ==
    ExampleCompleted =>
        /\ scanSummary.totalIssues = 7
        /\ CountIn(allIssues, {"high"}) = 3
        /\ CountIn(allIssues, {"medium"}) = 4
        /\ scanSummary.criticalIssues = 3
        /\ scanSummary.overallScore = 50
        /\ scanSummary.totalTests = 2
        /\ scanSummary.completedTests = 2

\* C22 amended: the example completes with 6 issues, 3 high and 3 medium
\* (SEO: high, high, medium; Security: high, medium, medium),
\* criticalIssues 3, overallScore 55 and totalTests = completedTests = 2.
C22_ExampleSixIssues ==
    ExampleCompleted =>
        /\ allIssues = <<"high", "high", "medium", "high", "medium", "medium">>
        /\ scanSummary.totalIssues = 6
        /\ scanSummary.criticalIssues = 3
        /\ scanSummary.overallScore = 55
        /\ scanSummary.totalTests = 2
        /\ scanSummary.completedTests = 2
        /\ Len(qa_issues) = 6
        /\ Len(qa_tests) = 2

C22_Witness ==
    /\ ExampleCompleted
    /\ pc = "done"
    /\ scanSummary.totalIssues = 6

\* ------------------------------------------------------------------ C23

\* The step handles a message, answers 200 and every write it makes is
\* applied.
Delivered ==
    /\ ndeliveries' = ndeliveries + 1
    /\ lastDelivery'.code = 200
    /\ ~lastDelivery'.failed

\* C23: when the receiver handles the message it has just handled, every
\* write applied both times, the Scan, TestRun and Issue records stay as
\* the first delivery left them.
C23_ReceiverIdempotent ==
    [][(/\ Delivered
        /\ lastDelivery.code = 200
        /\ ~lastDelivery.failed
        /\ lastDelivery'.msg = lastDelivery.msg)
       => UNCHANGED dbVars]_vars

\* ------------------------------------------------------------------ C24

\* C24: a delivery whose writes are all applied sets each stored value for
\* which the message carries a field (status, progress, the summary given
\* or the one made of error, the TestRun of currentTest and of test, a new
\* Issue), whether or not status is present, and leaves the other stored
\* values unchanged.
C24_FieldsIndependent ==
    [][Delivered =>
        LET m == lastDelivery'.msg IN
        /\ scanStatus' = IF m.status /= "-" THEN m.status ELSE scanStatus
        /\ scanProgress' = IF m.progress /= NoValue THEN m.progress
                            ELSE scanProgress
        /\ scanSummary' = IF m.error /= "-" THEN ErrorSummary(m.error)
                           ELSE IF m.summary /= NoSummary THEN m.summary
                           ELSE scanSummary
        /\ (m.currentTest = NoCurrentTest /\ m.test = NoTest)
             => qa_tests' = qa_tests
        /\ Len(qa_issues') = Len(qa_issues)
                               + (IF m.issue /= NoIssue THEN 1 ELSE 0)]_vars

\* ------------------------------------------------------------------ C25

\* The step is an Issue insert, the TestRun update at the end of a module,
\* or the Scan progress update after a module, and the write fails.
WriteFails ==
    /\ nfaults' = nfaults + 1
    /\ \/ pc = "progress"
       \/ /\ pc = "module"
          /\ mpc = "run"
          /\ \/ pidx > Len(CurSteps)
             \/ CurSteps[pidx].kind = "issue"

\* C25: a failing Issue insert, TestRun update or Scan progress update is
\* swallowed where it is made: the module stays in its sequence of checks
\* and the orchestrator in its sequence of modules, neither goes to its
\* catch block.
C25_WriteFailureSwallowed ==
    [][WriteFails => (pc' /= "catch" /\ mpc' /= "catch")]_vars

\* ------------------------------------------------------------------ C26

\* The severities of the Issue records of TestRun t, in insertion order.
IssuesOfTest(t) ==
    LET rows == SelectSeq(qa_issues, LAMBDA r : r.test_id = t)
    IN  [n \in 1..Len(rows) |-> rows[n].severity]

\* The severities of all Issue records, in insertion order.
IssuesStored == [n \in 1..Len(qa_issues) |-> qa_issues[n].severity]

FailedTests == {t \in 1..Len(qa_tests) : qa_tests[t].status = "failed"}

\* C26: with every persistence write applied, a module that raised after
\* recording k issues (its TestRun is failed) returns exactly those k
\* issues, and a completed scan counts every recorded issue, those of the
\* failed modules included, in totalIssues and in the overall score.
C26_PartialResultCounted ==
    "persist" \notin faultKinds =>
        /\ (pc = "module" /\ mpc = "return" /\ testId \in FailedTests)
              => issues = IssuesOfTest(testId)
        /\ scanStatus = "completed"
              => /\ allIssues = IssuesStored
                 /\ scanSummary.totalIssues = Len(IssuesStored)
                 /\ scanSummary.overallScore
                      = calculateOverallScore(IssuesStored)

\* A completed scan with a failed module that had recorded an issue.
C26_Witness ==
    /\ "persist" \notin faultKinds
    /\ scanStatus = "completed"
    /\ \E t \in FailedTests : Len(IssuesOfTest(t)) >= 1
    /\ scanSummary.totalIssues >= 1

\* ------------------------------------------------------------------ C27

\* The severities of the Issue records of the TestRuns in T.
IssuesOfTests(T) ==
    LET rows == SelectSeq(qa_issues, LAMBDA r : r.test_id \in T)
    IN  [n \in 1..Len(rows) |-> rows[n].severity]

NotFailedTests == (1..Len(qa_tests)) \ FailedTests

\* C27 as stated: with every persistence write applied, a completed scan
\* counts no issue of a module whose TestRun is failed: totalIssues and the
\* score are those of the issues of the other modules.
C27_FailedContributesZero ==
    (scanStatus = "completed" /\ "persist" \notin faultKinds) =>
        /\ scanSummary.totalIssues = Len(IssuesOfTests(NotFailedTests))
        /\ scanSummary.overallScore
             = calculateOverallScore(IssuesOfTests(NotFailedTests))

\* C27 amended: a module whose TestRun is failed contributes the issues it
\* recorded before it raised: totalIssues is the number of issues of the
\* other modules plus the number recorded by the failed ones, and it is
\* the number of the other modules alone only if the failed ones recorded
\* none.
C27_FailedContributesRecorded ==
    (scanStatus = "completed" /\ "persist" \notin faultKinds) =>
        /\ scanSummary.totalIssues
             = Len(IssuesOfTests(NotFailedTests))
               + Len(IssuesOfTests(FailedTests))
        /\ scanSummary.totalIssues = Len(IssuesOfTests(NotFailedTests))
             <=> \A t \in FailedTests : IssuesOfTest(t) = <<>>

\* A completed scan all of whose counted issues come from a failed module.
C27_Witness ==
    /\ scanStatus = "completed"
    /\ "persist" \notin faultKinds
    /\ scanSummary.totalIssues >= 1
    /\ \E t \in FailedTests :
         Len(IssuesOfTest(t)) = scanSummary.totalIssues

\* ------------------------------------------------------------------ C29

\* C29: for a scan with 1 to 5 enabled modules, the progress stored on the
\* Scan record is at every moment a whole number between 0 and 100.
C29_ProgressInteger ==
    totalTests(settings) \in 1..5 =>
        /\ scanProgress \in P(0)..P(100)
        /\ scanProgress % Scale = 0

\* ------------------------------------------------------------------ C30

\* Between two modules, every progress write so far applied.
BetweenModules == pc = "modules" /\ "persist" \notin faultKinds

\* C30 as stated: with X = 5 the progress written after the navigation,
\* every module adds the same amount, so that after the k-th module
\* progress is X plus k times what the first module added.
C30_EvenStepsFromSetup ==
    (BetweenModules /\ completedTests >= 1) =>
        scanProgress - P(5)
          = completedTests * (ModuleProgress(1, totalTests(settings)) - P(5))

\* C30 amended: after the k-th module progress is 10 + k * 80 / N,
\* whatever was written after the navigation (5): the first module adds
\* 5 + 80 / N, every later one 80 / N, and after the N-th progress is 90.
C30_EvenStepsFromTen ==
    BetweenModules =>
        /\ completedTests = 0 => scanProgress = P(5)
        /\ completedTests >= 1 =>
              /\ totalTests(settings) * (scanProgress - P(10))
                   = completedTests * P(80)
              /\ scanProgress - P(5)
                   = P(5) + (completedTests * P(80)) \div totalTests(settings)
        /\ (completedTests >= 1 /\ completedTests = totalTests(settings))
              => scanProgress = P(90)

\* Two of three enabled modules have finished.
C30_Witness ==
    /\ BetweenModules
    /\ totalTests(settings) = 3
    /\ completedTests = 2
    /\ scanProgress = P(10) + 160

\* ------------------------------------------------------------------ C28

\* C28: when the only failure of a scan is one failing capture or one
\* failing upload of a viewport's screenshot, the scan goes through all
\* viewports, leaves that viewport's entry null and the others set, calls
\* every enabled module and ends completed.
C28_CaptureFailureNonFatal ==
    (Finished /\ nfaults = 1 /\ faultKinds \subseteq {"capture", "upload"})
    => /\ vp = Len(Viewports) + 1
       /\ Cardinality({v \in DOMAIN screenshots : screenshots[v] = "null"}) = 1
       /\ Len(started)
            = Cardinality({c \in Categories : ShotsTestsToRun(settings)[c]})
       /\ scanStatus = "completed"

\* ------------------------------------------------------------------ C31

\* C31: the running list grows by exactly the list each invoked module
\* returns, and the Summary of a completed scan has totalIssues equal to
\* the length of that list, criticalIssues equal to the number of its
\* issues of severity critical or high, and criticalIssues <= totalIssues.
C31_SummaryCounts ==
    /\ [][(pc = "module" /\ mpc = "return" /\ pc' /= pc)
            => allIssues' = allIssues \o issues]_vars
    /\ [](scanStatus = "completed" =>
            /\ scanSummary.totalIssues = Len(allIssues)
            /\ scanSummary.criticalIssues
                 = Cardinality({n \in 1..Len(allIssues) :
                                  allIssues[n] \in {"critical", "high"}})
            /\ scanSummary.criticalIssues <= scanSummary.totalIssues)

\* A completed scan of two modules with issues, some critical or high and
\* some not.
C31_Witness ==
    /\ scanStatus = "completed"
    /\ Len(started) >= 2
    /\ scanSummary.criticalIssues >= 1
    /\ scanSummary.criticalIssues < scanSummary.totalIssues

\* ------------------------------------------------------------------ C32

\* The module has returned and its TestRun is stored as completed.
ReturnedCompleted ==
    /\ pc = "module"
    /\ mpc = "return"
    /\ testId /= 0
    /\ qa_tests[testId].status = "completed"

\* C32: the score stored on a completed TestRun of Accessibility is
\* max(0, 100 - 5 n), that of SEO, Security and Best Practices
\* max(0, 100 - 10 n), with n the number of issues the module returns,
\* whatever their severities; a failed TestRun has no score.
C32_ModuleScores ==
    /\ (ReturnedCompleted /\ Cat = "accessibility")
          => qa_tests[testId].score = Max(0, 100 - 5 * Len(issues))
    /\ (ReturnedCompleted /\ Cat \in {"seo", "security", "best_practices"})
          => qa_tests[testId].score = Max(0, 100 - 10 * Len(issues))
    /\ \A t \in 1..Len(qa_tests) :
          /\ qa_tests[t].status = "failed" => qa_tests[t].score = NoValue
          /\ qa_tests[t].status = "completed" => qa_tests[t].score /= NoValue

\* Accessibility has returned two issues of different severities and its
\* TestRun is completed with score 90.
C32_Witness ==
    /\ ReturnedCompleted
    /\ Cat = "accessibility"
    /\ Len(issues) = 2
    /\ issues[1] /= issues[2]
    /\ qa_tests[testId].score = 90

\* ------------------------------------------------------------------ C33

\* The audits of the engine's result whose score is not 1: imperfect ones
\* and absent ones.
NotPerfect(p) == {a \in {"srt", "lcp"} : p[a] /= "perfect"}

\* C33: with no external failure, the Performance module returns one high
\* issue per audit that is not perfect, absent audits included, and its
\* TestRun is completed with the engine's category score.
C33_PerformanceIssues ==
    RanClean("performance") =>
        /\ Len(issues) = Cardinality(NotPerfect(page))
        /\ \A n \in 1..Len(issues) : issues[n] = "high"
        /\ qa_tests[testId].status = "completed"
        /\ qa_tests[testId].score = page.perfScore

\* ------------------------------------------------------------------ C34

\* C34: no step of the receiver changes the stored status of a Scan that
\* is completed or failed.
C34_TerminalStatusKept ==
    [][(scanStatus \in Terminal) => UNCHANGED scanStatus]_vars

\* ------------------------------------------------------------------ C35

\* C35: when performCompleteScan has returned, the context it created is
\* not open.
C35_ContextClosed == Finished => context /= "open"

\* ------------------------------------------------------------------ C36

\* C36: the Summary of a completed scan counts as many issues as there
\* are Issue records stored for the scan, whatever inserts failed.
C36_TotalIsPersisted ==
    scanStatus = "completed" => scanSummary.totalIssues = Len(qa_issues)

\* ------------------------------------------------------------------ C37

\* C37: the step that marks a scan failed leaves its progress unchanged; a
\* failed Scan has progress below 100; progress is 100 exactly when the
\* status is completed, and then the summary holds the computed counts.
C37_FailedBelowHundred ==
    /\ [][(scanStatus /= "failed" /\ scanStatus' = "failed")
            => UNCHANGED scanProgress]_vars
    /\ [](/\ scanStatus = "failed" => scanProgress < P(100)
          /\ scanProgress = P(100) <=> scanStatus = "completed"
          /\ scanStatus = "completed" => scanSummary.kind = "computed")

\* ------------------------------------------------------------------ C38

\* No Scan record of a started scan is in status running.
NoScanRunning ==
    \A i \in 1..Len(invocations) :
        scans[invocations[i].scanId].status /= "running"

\* C38: once the process has exited on the shutdown signal, with no
\* external failure in the whole run, no record of a started scan stays
\* in status running.
C38_ShutdownLeavesNoneRunning ==
    (proc = "exited" /\ nfaults = 0) ~> NoScanRunning

\* ------------------------------------------------------------------ C39

\* C39: a Scan record that the scan-creation function has inserted does
\* not stay queued forever, in a run without any failed external call.
C39_LeavesQueued ==
    <>(nfaults > 0) \/ (created ~> scanStatus /= "queued")

====
